---------------------------- MODULE Spec2Model ----------------------------
(***************************************************************************)
(* A model of the quant_agent pipeline: the indicators of features.py,     *)
(* the signal generators of strategy.py, the simulator of backtester.py,   *)
(* the sizing functions of position_sizing.py and the regime classifier    *)
(* of market_state.py, the TradingAgent of agent.py and the download of    *)
(* data.py.                                                                *)
(*                                                                         *)
(* Numbers.  A float is modelled by an exact rational <<n, d>> in lowest   *)
(* terms with d > 0.  The three non-finite floats are <<0, 0>> (NaN),      *)
(* <<1, 0>> (+inf) and <<-1, 0>> (-inf).  Rounding is not modelled: every  *)
(* statement below is about the exact value of the float expression.       *)
(* Values that are irrational in general (a square root, a fractional      *)
(* power) are kept as tagged expressions: <<"q", r>>, <<"sqrt", r>>,       *)
(* <<"powm1", b, e>> and <<"quot", x, y>>.                                 *)
(***************************************************************************)
EXTENDS Integers, Sequences, FiniteSets, TLC

(* sg: a caller of the signal generators; bt: a caller of the simulator;   *)
(* tb: a caller that owns a table and passes it to the stages;             *)
(* ps: a caller of the sizing functions and of the trade statistics;       *)
(* ms: a caller of the classifier; ag: a TradingAgent and its caller;      *)
(* dl: download_ohlcv, the cache file and the data source.                 *)
VARIABLES sg, bt, tb, ps, ms, ag, dl

vars == <<sg, bt, tb, ps, ms, ag, dl>>

----------------------------------------------------------------------------
(* Exact arithmetic on floats *)

Abs(n) == IF n < 0 THEN -n ELSE n

Sign(n) == IF n < 0 THEN -1 ELSE IF n > 0 THEN 1 ELSE 0

RECURSIVE GCD(_, _)
GCD(a, b) == IF b = 0 THEN a ELSE GCD(b, a % b)

Norm(n, d) ==
    IF d = 0 THEN <<Sign(n), 0>>
    ELSE LET g == GCD(Abs(n), Abs(d))
             s == IF d < 0 THEN -1 ELSE 1
         IN  <<(s * n) \div g, (s * d) \div g>>

NaN == <<0, 0>>
Zero == <<0, 1>>
One == <<1, 1>>
Q(n, d) == Norm(n, d)

IsNaN(x) == x = NaN

RAdd(a, b) ==
    IF a[2] = 0 /\ b[2] = 0
    THEN (IF a = b THEN a ELSE NaN)
    ELSE LET g == GCD(a[2], b[2])
         IN  Norm(a[1] * (b[2] \div g) + b[1] * (a[2] \div g), (a[2] \div g) * b[2])

RNeg(a) == <<-a[1], a[2]>>

RSub(a, b) == RAdd(a, RNeg(b))

RMul(a, b) ==
    IF a[2] = 0 \/ b[2] = 0
    THEN <<Sign(a[1]) * Sign(b[1]), 0>>
    ELSE LET g1 == GCD(Abs(a[1]), b[2])
             g2 == GCD(Abs(b[1]), a[2])
         IN  Norm((a[1] \div g1) * (b[1] \div g2), (a[2] \div g2) * (b[2] \div g1))

RRecip(a) == IF IsNaN(a) THEN NaN ELSE Norm(a[2], a[1])

RDiv(a, b) == RMul(a, RRecip(b))

RAbs(a) == <<Abs(a[1]), a[2]>>

(* Comparisons: every comparison with NaN is false, as for floats. *)
RLt(a, b) ==
    /\ ~IsNaN(a)
    /\ ~IsNaN(b)
    /\ IF a[2] = 0 /\ b[2] = 0 THEN a[1] < b[1]
       ELSE IF a[2] = 0 THEN a[1] < 0
       ELSE IF b[2] = 0 THEN b[1] > 0
       ELSE a[1] * (b[2] \div GCD(a[2], b[2])) < b[1] * (a[2] \div GCD(a[2], b[2]))

RGt(a, b) == RLt(b, a)

RLe(a, b) == ~IsNaN(a) /\ ~IsNaN(b) /\ ~RLt(b, a)

RGe(a, b) == RLe(b, a)

RMin2(a, b) == IF RLt(b, a) THEN b ELSE a

RMax2(a, b) == IF RLt(a, b) THEN b ELSE a

----------------------------------------------------------------------------
(* pandas Series operations used by the pipeline; a Series is a sequence *)

(* Series.clip(lower, upper): NaN stays NaN *)
Clip(x, lo, hi) == IF IsNaN(x) THEN NaN ELSE RMin2(RMax2(x, lo), hi)

(* Series.shift(1): every value moves one bar later, bar 0 becomes NaN *)
Shift1(s) == [t \in 1..Len(s) |-> IF t = 1 THEN NaN ELSE s[t - 1]]

(* Series.fillna(v) *)
FillNa(s, v) == [t \in 1..Len(s) |-> IF IsNaN(s[t]) THEN v ELSE s[t]]

(* Series.ffill(): a NaN takes the last defined value before it, if any *)
RECURSIVE LastDefined(_, _)
LastDefined(s, t) ==
    IF t = 0 THEN NaN
    ELSE IF ~IsNaN(s[t]) THEN s[t]
    ELSE LastDefined(s, t - 1)

FFill(s) == [t \in 1..Len(s) |-> LastDefined(s, t)]

(* Series.cumprod(): NaN entries are skipped (skipna) and stay NaN *)
RECURSIVE ProdUpTo(_, _)
ProdUpTo(s, t) ==
    IF t = 0 THEN One
    ELSE IF IsNaN(s[t]) THEN ProdUpTo(s, t - 1)
    ELSE RMul(ProdUpTo(s, t - 1), s[t])

CumProd(s) == [t \in 1..Len(s) |-> IF IsNaN(s[t]) THEN NaN ELSE ProdUpTo(s, t)]

(* Series.cummax(): NaN entries are skipped and stay NaN *)
RECURSIVE MaxUpTo(_, _)
MaxUpTo(s, t) ==
    IF t = 0 THEN NaN
    ELSE LET m == MaxUpTo(s, t - 1)
         IN  IF IsNaN(s[t]) THEN m
             ELSE IF IsNaN(m) THEN s[t]
             ELSE RMax2(m, s[t])

CumMax(s) == [t \in 1..Len(s) |-> IF IsNaN(s[t]) THEN NaN ELSE MaxUpTo(s, t)]

(* Series.min(): NaN entries are skipped; NaN when nothing is left *)
RECURSIVE MinUpTo(_, _)
MinUpTo(s, t) ==
    IF t = 0 THEN NaN
    ELSE LET m == MinUpTo(s, t - 1)
         IN  IF IsNaN(s[t]) THEN m
             ELSE IF IsNaN(m) THEN s[t]
             ELSE RMin2(m, s[t])

SeriesMin(s) == MinUpTo(s, Len(s))

(* the sum of s[lo..hi], split in halves so that the nesting of the       *)
(* additions grows with the logarithm of the length                       *)
RECURSIVE SumRange(_, _, _)
SumRange(s, lo, hi) ==
    IF lo > hi THEN Zero
    ELSE IF lo = hi THEN s[lo]
    ELSE LET mid == (lo + hi) \div 2
         IN  RAdd(SumRange(s, lo, mid), SumRange(s, mid + 1, hi))

SumUpTo(s, t) == SumRange(s, 1, t)

(* The variance behind Series.std() (ddof = 1): NaN entries are skipped, *)
(* and the result is NaN when fewer than two values are left.            *)
SampleVar(s) ==
    LET idx == {t \in 1..Len(s) : ~IsNaN(s[t])}
        n == Cardinality(idx)
        vals == [t \in 1..Len(s) |-> IF t \in idx THEN s[t] ELSE Zero]
        mean == RDiv(SumUpTo(vals, Len(s)), Q(n, 1))
        sq == [t \in 1..Len(s) |->
                 IF t \in idx
                 THEN RMul(RSub(s[t], mean), RSub(s[t], mean))
                 ELSE Zero]
    IN  IF n <= 1 THEN NaN ELSE RDiv(SumUpTo(sq, Len(s)), Q(n - 1, 1))

----------------------------------------------------------------------------
(* backtester.py: run_backtest(df, signal_col, cfg, ret_col) *)

AnnFactor == 252

(* a faulty variant: the signal is scaled without being clipped *)
PositionUnclipped(signal, cfg) ==
    [t \in 1..Len(signal) |-> RMul(signal[t], cfg.max_position)]

(* position = df[signal_col].clip(lower=0, upper=1) * cfg.max_position *)
Position(signal, cfg) ==
    [t \in 1..Len(signal) |-> RMul(Clip(signal[t], Zero, One), cfg.max_position)]

(* a faulty variant: the position of the same bar is used, without the lag of one bar *)
PositionPrevNoShift(position) == position

(* a faulty variant: the simulator keeps its position between calls, so *)
(* that the first bar starts from the last position of the call before  *)
PositionPrevCarried(position) ==
    [t \in 1..Len(position) |->
        IF t > 1 THEN position[t - 1]
        ELSE IF bt.last = <<>> \/ Len(bt.last[1].position) = 0 THEN Zero
        ELSE bt.last[1].position[Len(bt.last[1].position)]]

(* position_prev = position.shift(1).fillna(0) *)
PositionPrev(position) == FillNa(Shift1(position), Zero)

(* turnover = (position - position_prev).abs() *)
Turnover(position, position_prev) ==
    [t \in 1..Len(position) |-> RAbs(RSub(position[t], position_prev[t]))]

(* gross_ret = position_prev * df[ret_col] *)
GrossRet(position_prev, ret) ==
    [t \in 1..Len(ret) |-> RMul(position_prev[t], ret[t])]

(* fee = turnover * cfg.fee_rate *)
Fee(turnover, cfg) == [t \in 1..Len(turnover) |-> RMul(turnover[t], cfg.fee_rate)]

(* net_ret = gross_ret - fee *)
NetRet(gross_ret, fee) == [t \in 1..Len(gross_ret) |-> RSub(gross_ret[t], fee[t])]

(* a faulty variant: the growth factors are not compounded *)
EquityNotCompounded(net_ret, cfg) ==
    [t \in 1..Len(net_ret) |-> RMul(RAdd(One, net_ret[t]), cfg.initial_cash)]

(* df["equity"] = (1 + net_ret).cumprod() * cfg.initial_cash *)
Equity(net_ret, cfg) ==
    LET growth == CumProd([t \in 1..Len(net_ret) |-> RAdd(One, net_ret[t])])
    IN  [t \in 1..Len(net_ret) |-> RMul(growth[t], cfg.initial_cash)]

(* a faulty variant: the first and last equity are read whatever the length *)
TotalRetGuardNone(equity) == TRUE

(* the condition of "... if len(equity) > 1 else 0.0" *)
TotalRetGuard(equity) == Len(equity) > 1

(* equity.iloc[-1] and equity.iloc[0] raise IndexError on an empty Series *)
TotalRetRaises(equity) == TotalRetGuard(equity) /\ Len(equity) = 0

(* total_ret = equity.iloc[-1] / equity.iloc[0] - 1 if len(equity) > 1 else 0.0 *)
TotalRet(equity) ==
    IF TotalRetGuard(equity) /\ ~TotalRetRaises(equity)
    THEN RSub(RDiv(equity[Len(equity)], equity[1]), One)
    ELSE Zero

(* the condition of "... if len(df) > 0 else 0.0" *)
AnnRetGuard(n) == n > 0

(* ann_factor / len(df) raises ZeroDivisionError when len(df) = 0 *)
AnnRetRaises(n) == AnnRetGuard(n) /\ n = 0

(* ann_ret = (1 + total_ret) ** (ann_factor / len(df)) - 1 if len(df) > 0 else 0.0 *)
(* b ** e - 1 is kept as an expression, except where it is exact:           *)
(* 1 ** e = 1, 0 ** e = 0 (e > 0), and NaN for a NaN or negative base.      *)
AnnRet(total_ret, n) ==
    IF AnnRetGuard(n) /\ ~AnnRetRaises(n)
    THEN LET b == RAdd(One, total_ret)
         IN  IF IsNaN(b) \/ RLt(b, Zero) THEN <<"q", NaN>>
             ELSE IF b = One THEN <<"q", Zero>>
             ELSE IF b = Zero THEN <<"q", RNeg(One)>>
             ELSE <<"powm1", b, Q(AnnFactor, n)>>
    ELSE <<"q", Zero>>

(* ann_vol = daily_ret.std() * np.sqrt(ann_factor), kept as sqrt(var * 252) *)
AnnVol(daily_ret) == <<"sqrt", RMul(SampleVar(daily_ret), Q(AnnFactor, 1))>>

(* ann_vol > 0: false for NaN *)
VolPositive(ann_vol) == RGt(ann_vol[2], Zero)

(* the condition of "... if ann_vol > 0 else 0.0" *)
SharpeGuard(ann_vol) == VolPositive(ann_vol)

(* sharpe = ann_ret / ann_vol if ann_vol > 0 else 0.0 *)
Sharpe(ann_ret, ann_vol) ==
    IF SharpeGuard(ann_vol) THEN <<"quot", ann_ret, ann_vol>> ELSE <<"q", Zero>>

(* a faulty variant: the maximum of the whole curve, equity.max(), on every bar *)
RollingMaxGlobal(equity) == [t \in 1..Len(equity) |-> MaxUpTo(equity, Len(equity))]

(* rolling_max = equity.cummax() *)
RollingMax(equity) == CumMax(equity)

(* drawdown = equity / rolling_max - 1 *)
Drawdown(equity, rolling_max) ==
    [t \in 1..Len(equity) |-> RSub(RDiv(equity[t], rolling_max[t]), One)]

(* max_dd = drawdown.min() if not drawdown.empty else 0.0 *)
MaxDD(drawdown) == IF Len(drawdown) # 0 THEN SeriesMin(drawdown) ELSE Zero

(* The whole call.  df = df.copy(): the work is done on a copy, the        *)
(* caller's table is only read.  The record keeps the inputs, the local    *)
(* Series of the call, the returned table (data) and the returned stats.   *)
run_backtest(df, cfg) ==
    LET position == Position(df.signal, cfg)
        position_prev == PositionPrev(position)
        turnover == Turnover(position, position_prev)
        gross_ret == GrossRet(position_prev, df.ret)
        fee == Fee(turnover, cfg)
        net_ret == NetRet(gross_ret, fee)
        equity == Equity(net_ret, cfg)
        n == Len(df.signal)
        total_ret == TotalRet(equity)
        ann_ret == AnnRet(total_ret, n)
        ann_vol == AnnVol(net_ret)
        sharpe == Sharpe(ann_ret, ann_vol)
        rolling_max == RollingMax(equity)
        drawdown == Drawdown(equity, rolling_max)
        max_dd == MaxDD(drawdown)
    IN  [ df |-> df,
          cfg |-> cfg,
          position |-> position,
          position_prev |-> position_prev,
          turnover |-> turnover,
          gross_ret |-> gross_ret,
          fee |-> fee,
          raised |-> IF TotalRetRaises(equity) THEN "IndexError"
                     ELSE IF AnnRetRaises(n) THEN "ZeroDivisionError"
                     ELSE "none",
          data |-> [ signal |-> df.signal, ret |-> df.ret,
                     net_ret |-> net_ret, equity |-> equity ],
          stats |-> [ total_return |-> total_ret,
                      annual_return |-> ann_ret,
                      annual_volatility |-> ann_vol,
                      sharpe |-> sharpe,
                      max_drawdown |-> max_dd,
                      num_days |-> n ] ]

----------------------------------------------------------------------------
(* The simulator driven by a caller.  A table (signal and ret columns) and *)
(* a configuration are chosen and run_backtest is called on them; first    *)
(* and last keep the records of the first and of the latest call.          *)

MaxBars == 3
MaxRuns == 2

SignalValues == {Q(-1, 1), Zero, One, Q(2, 1)}
RetValues == {Q(-1, 1), Q(1, 2)}
MaxPositions == {Q(1, 2), One}
FeeRates == {Zero, Q(1, 10)}
InitialCashValues == {Q(100000, 1)}

(* a table of n bars: the signal column and the raw return column *)
Tables(maxlen) ==
    UNION { [signal : [1..n -> SignalValues], ret : [1..n -> RetValues]] : n \in 0..maxlen }

BacktestConfigs ==
    [max_position : MaxPositions, fee_rate : FeeRates, initial_cash : InitialCashValues]

SgIdle == [phase |-> "idle"]

TbIdle == [phase |-> "idle"]

PsIdle == [phase |-> "idle"]

MsIdle == [phase |-> "idle"]

AgIdle == [phase |-> "idle"]

DlIdle == [phase |-> "idle"]

BtStart(maxlen) ==
    { [ table |-> d, orig |-> d, cfg |-> c, first |-> <<>>, last |-> <<>>,
        runs |-> 0, others |-> 0, edited |-> FALSE ] :
        d \in Tables(maxlen), c \in BacktestConfigs }

InitBT ==
    /\ ag = AgIdle
    /\ dl = DlIdle
    /\ sg = SgIdle
    /\ tb = TbIdle
    /\ ps = PsIdle
    /\ ms = MsIdle
    /\ bt \in BtStart(MaxBars)

(* result = run_backtest(table, signal_col, cfg) *)
RunBacktest ==
    /\ LET r == run_backtest(bt.table, bt.cfg)
       IN  bt' = [bt EXCEPT !.last = <<r>>,
                            !.first = IF bt.first = <<>> THEN <<r>> ELSE @,
                            !.runs = @ + 1,
                            !.others = IF bt.table = bt.orig THEN @ ELSE @ + 1]
    /\ UNCHANGED <<sg, tb, ps, ms, ag, dl>>

NextBT == bt.runs < MaxRuns /\ RunBacktest

SpecBT == InitBT /\ [][NextBT]_vars

----------------------------------------------------------------------------
(* Two tables compared.  After the first call the caller may pass a table  *)
(* whose signal differs on one bar alone (once), and may go back to the    *)
(* table of the first call; run_backtest is called on the current table.   *)

MaxPairBars == 2
MaxPairRuns == 3

InitPair ==
    /\ ag = AgIdle
    /\ dl = DlIdle
    /\ sg = SgIdle
    /\ tb = TbIdle
    /\ ps = PsIdle
    /\ ms = MsIdle
    /\ bt \in BtStart(MaxPairBars)

(* the caller builds a table whose signal differs on bar t alone *)
EditSignal(t, v) ==
    /\ bt.runs >= 1
    /\ ~bt.edited
    /\ t \in 1..Len(bt.table.signal)
    /\ v # bt.table.signal[t]
    /\ bt' = [bt EXCEPT !.table.signal[t] = v, !.edited = TRUE]
    /\ UNCHANGED <<sg, tb, ps, ms, ag, dl>>

(* the caller goes back to the table of the first call *)
RestoreTable ==
    /\ bt.table # bt.orig
    /\ bt' = [bt EXCEPT !.table = bt.orig]
    /\ UNCHANGED <<sg, tb, ps, ms, ag, dl>>

NextPair ==
    \/ bt.runs < MaxPairRuns /\ RunBacktest
    \/ \E t \in 1..MaxPairBars, v \in SignalValues : EditSignal(t, v)
    \/ RestoreTable

SpecPair == InitPair /\ [][NextPair]_vars

----------------------------------------------------------------------------
(* Properties of run_backtest.  Bars are numbered from 1 here: bar t of    *)
(* the source is bar t + 1 of a sequence.  The signal and return values    *)
(* are defined numbers (no NaN).                                           *)

BtDone == bt.last # <<>>

BtLast == bt.last[1]

BtFirst == bt.first[1]

RECURSIVE RPow(_, _)
RPow(b, k) == IF k = 0 THEN One ELSE RMul(b, RPow(b, k - 1))

(* clip(signal[t], 0, 1) * max_position, and 0 before the first bar *)
TargetPosition(r, t) ==
    IF t = 0 THEN Zero
    ELSE RMul(RMin2(RMax2(r.df.signal[t], Zero), One), r.cfg.max_position)

(* C4: the position multiplied with the raw return of bar t is the target *)
(* position of bar t - 1 (0 on the first bar), and the gross return of    *)
(* bar t is that position times the raw return of bar t.                  *)
C4_ExecutedPositionLags ==
    BtDone =>
        \A t \in 1..Len(BtLast.df.signal) :
            /\ BtLast.position_prev[t] = TargetPosition(BtLast, t - 1)
            /\ BtLast.gross_ret[t] = RMul(TargetPosition(BtLast, t - 1), BtLast.df.ret[t])

(* a run where the target position changes from bar to bar, so that a lag *)
(* of one bar shows: in on bar 1, out on bar 2, with a non-zero return     *)
C4_Witness ==
    /\ BtDone
    /\ Len(BtLast.df.signal) >= 2
    /\ BtLast.df.signal[1] = One
    /\ BtLast.df.signal[2] = Zero
    /\ BtLast.df.ret[2] # Zero
    /\ BtLast.gross_ret[2] # Zero

(* C5: equity[t] = equity[t-1] * (1 + net_return[t]) from initial_cash,   *)
(* with net_return[t] = executed[t] * ret[t] - |target[t] - target[t-1]|  *)
(* * fee_rate; and with signal 1 on all n bars, no fee, max_position 1    *)
(* and a constant return r, the last equity is initial_cash*(1+r)^(n-1).  *)
C5_EquityRecurrence ==
    BtDone =>
        LET r == BtLast
            n == Len(r.df.signal)
        IN  /\ \A t \in 1..n :
                 /\ r.data.net_ret[t] =
                        RSub(RMul(TargetPosition(r, t - 1), r.df.ret[t]),
                             RMul(RAbs(RSub(TargetPosition(r, t), TargetPosition(r, t - 1))),
                                  r.cfg.fee_rate))
                 /\ r.data.equity[t] =
                        RMul(IF t = 1 THEN r.cfg.initial_cash ELSE r.data.equity[t - 1],
                             RAdd(One, r.data.net_ret[t]))
            /\ ( /\ n >= 1
                 /\ \A t \in 1..n : r.df.signal[t] = One /\ r.df.ret[t] = r.df.ret[1]
                 /\ r.cfg.fee_rate = Zero
                 /\ r.cfg.max_position = One )
               => r.data.equity[n] =
                      RMul(r.cfg.initial_cash, RPow(RAdd(One, r.df.ret[1]), n - 1))

(* always in the market over three bars with r = 1/2: 100000 * 1.5^2 *)
C5_Witness ==
    /\ BtDone
    /\ Len(BtLast.df.signal) = 3
    /\ \A t \in 1..3 : BtLast.df.signal[t] = One /\ BtLast.df.ret[t] = Q(1, 2)
    /\ BtLast.cfg.fee_rate = Zero
    /\ BtLast.cfg.max_position = One
    /\ BtLast.data.equity[3] = Q(225000, 1)

(* C6: target position, executed position and turnover of every bar lie  *)
(* in [0, max_position], whatever the signal values are.                  *)
C6_PositionBounds ==
    BtDone =>
        LET r == BtLast
            InRange(x) == RLe(Zero, x) /\ RLe(x, r.cfg.max_position)
        IN  \A t \in 1..Len(r.df.signal) :
                /\ InRange(r.position[t])
                /\ InRange(r.position_prev[t])
                /\ InRange(r.turnover[t])

(* signals below 0 and above 1 on neighbouring bars *)
C6_Witness ==
    /\ BtDone
    /\ Len(BtLast.df.signal) >= 3
    /\ BtLast.df.signal[1] = Q(2, 1)
    /\ BtLast.df.signal[2] = Q(-1, 1)
    /\ BtLast.df.signal[3] = Q(2, 1)
    /\ BtLast.turnover[2] = BtLast.cfg.max_position

(* the product of (1 + net_return[t]) over bars from..to *)
RECURSIVE GrowthOver(_, _, _)
GrowthOver(net_ret, from, to) ==
    IF to < from THEN One
    ELSE RMul(GrowthOver(net_ret, from, to - 1), RAdd(One, net_ret[to]))

(* C7 as stated: for more than one bar, 1 + total_return is the product   *)
(* of (1 + net_return[t]) over all bars, which is equity[last] divided by *)
(* initial_cash.                                                          *)
C7_TotalReturnFromInitialCash ==
    (BtDone /\ Len(BtLast.df.signal) > 1) =>
        LET r == BtLast
            n == Len(r.df.signal)
        IN  /\ RAdd(One, r.stats.total_return) = GrowthOver(r.data.net_ret, 1, n)
            /\ RAdd(One, r.stats.total_return) = RDiv(r.data.equity[n], r.cfg.initial_cash)

(* What the code computes instead: for more than one bar, 1 + total_return *)
(* is equity[last] / equity[first], the product of (1 + net_return[t])     *)
(* over the bars after the first; times (1 + net_return[first]) it is      *)
(* equity[last] / initial_cash, so the fee of the first bar is left out.   *)
C7_TotalReturnFromFirstEquity ==
    (BtDone /\ Len(BtLast.df.signal) > 1) =>
        LET r == BtLast
            n == Len(r.df.signal)
            total == RAdd(One, r.stats.total_return)
        IN  /\ total = RDiv(r.data.equity[n], r.data.equity[1])
            /\ total = GrowthOver(r.data.net_ret, 2, n)
            /\ RMul(total, RAdd(One, r.data.net_ret[1])) =
                   RDiv(r.data.equity[n], r.cfg.initial_cash)
            /\ (r.data.net_ret[1] # Zero /\ r.data.equity[n] # Zero)
                   => total # RDiv(r.data.equity[n], r.cfg.initial_cash)

(* the case of C7: a fee is charged on the first bar of a run of three bars *)
C7_Witness ==
    /\ BtDone
    /\ Len(BtLast.df.signal) = 3
    /\ BtLast.df.signal[1] = One
    /\ RGt(BtLast.cfg.fee_rate, Zero)
    /\ RLt(BtLast.data.net_ret[1], Zero)
    /\ BtLast.data.equity[3] # Zero

(* C8: run_backtest raises nothing; with no bar the statistics are all 0, *)
(* with one bar total_return is 0, and sharpe is 0 unless                 *)
(* annual_volatility is a number above 0, when it is annual_return /      *)
(* annual_volatility.                                                     *)
C8_DegenerateStats ==
    BtDone =>
        LET r == BtLast
            n == Len(r.df.signal)
            vol == r.stats.annual_volatility
            positive == vol[2] # NaN /\ vol[2][1] > 0
        IN  /\ r.raised = "none"
            /\ n = 0 => /\ r.stats.total_return = Zero
                        /\ r.stats.annual_return = <<"q", Zero>>
                        /\ r.stats.sharpe = <<"q", Zero>>
                        /\ r.stats.max_drawdown = Zero
                        /\ r.stats.num_days = 0
            /\ n = 1 => r.stats.total_return = Zero
            /\ r.stats.sharpe =
                   IF positive THEN <<"quot", r.stats.annual_return, vol>>
                   ELSE <<"q", Zero>>

(* a run on a table without bars: annual_volatility is undefined *)
C8_Witness ==
    /\ BtDone
    /\ Len(BtLast.df.signal) = 0
    /\ BtLast.stats.annual_volatility = <<"sqrt", NaN>>
    /\ BtLast.stats.num_days = 0

(* the largest of equity[1..t] *)
RunningMax(equity, t) ==
    CHOOSE m \in {equity[s] : s \in 1..t} : \A s \in 1..t : RLe(equity[s], m)

(* C9: max_drawdown is the least equity[t] / max(equity[1..t]) - 1; with  *)
(* all equity values positive it lies in (-1, 0]; and it is 0 exactly     *)
(* when no equity value is below an earlier one.                          *)
C9_MaxDrawdown ==
    (BtDone /\ Len(BtLast.df.signal) >= 1) =>
        LET r == BtLast
            n == Len(r.df.signal)
            eq == r.data.equity
            dd(t) == RSub(RDiv(eq[t], RunningMax(eq, t)), One)
            mdd == r.stats.max_drawdown
        IN  /\ \E t \in 1..n : mdd = dd(t)
            /\ \A t \in 1..n : RLe(mdd, dd(t))
            /\ (\A t \in 1..n : RGt(eq[t], Zero)) => RLt(RNeg(One), mdd) /\ RLe(mdd, Zero)
            /\ mdd = Zero <=> \A t \in 1..n : \A u \in 1..t : RGe(eq[t], eq[u])

(* equity rises, then falls below its running maximum, all above 0 *)
C9_Witness ==
    /\ BtDone
    /\ Len(BtLast.df.signal) = 3
    /\ \A t \in 1..3 : RGt(BtLast.data.equity[t], Zero)
    /\ RLt(BtLast.data.equity[1], BtLast.data.equity[2])
    /\ RLt(BtLast.data.equity[3], BtLast.data.equity[2])
    /\ RLt(BtLast.stats.max_drawdown, Zero)

----------------------------------------------------------------------------
(* Properties of two calls of run_backtest (SpecPair) *)

BtBoth == bt.first # <<>> /\ bt.last # <<>>

(* the two calls have the same returns and configuration, and their      *)
(* signals agree on every bar before t                                    *)
AgreeBefore(a, b, t) ==
    /\ a.df.ret = b.df.ret
    /\ a.cfg = b.cfg
    /\ Len(a.df.signal) = Len(b.df.signal)
    /\ \A u \in 1..(t - 1) : a.df.signal[u] = b.df.signal[u]

(* C3 as stated: two signal series that agree before bar t give the same *)
(* equity[t], for every fee_rate >= 0.                                    *)
C3_EquityIgnoresSignalOfBar ==
    BtBoth =>
        \A t \in 1..Len(BtLast.df.signal) :
            AgreeBefore(BtFirst, BtLast, t) => BtLast.data.equity[t] = BtFirst.data.equity[t]

(* C3 as the code has it: two signal series that agree before bar t give *)
(* the same executed position and gross return on bar t, and the same    *)
(* equity[t] when fee_rate = 0.                                           *)
C3_ExecutionIgnoresSignalOfBar ==
    BtBoth =>
        \A t \in 1..Len(BtLast.df.signal) :
            AgreeBefore(BtFirst, BtLast, t) =>
                /\ BtLast.position_prev[t] = BtFirst.position_prev[t]
                /\ BtLast.gross_ret[t] = BtFirst.gross_ret[t]
                /\ BtLast.cfg.fee_rate = Zero => BtLast.data.equity[t] = BtFirst.data.equity[t]

(* two calls without fee whose target positions differ on the last bar   *)
(* alone, the position before it being held into a non-zero return       *)
C3_Witness ==
    /\ BtBoth
    /\ Len(BtLast.df.signal) = 2
    /\ AgreeBefore(BtFirst, BtLast, 2)
    /\ BtLast.position[2] # BtFirst.position[2]
    /\ BtLast.cfg.fee_rate = Zero
    /\ BtLast.gross_ret[2] # Zero
    /\ BtLast.data.equity[2] = BtFirst.data.equity[2]

----------------------------------------------------------------------------
(* features.py: the indicator columns.  A table of closes is a sequence   *)
(* of prices.  The z-score (close - mean) / std has a square root in it;  *)
(* its column holds the signed square sign(z) * z^2 instead, which is a   *)
(* rational and is ordered as z is.                                       *)

SignedSquare(x) == IF RLt(x, Zero) THEN RNeg(RMul(x, x)) ELSE RMul(x, x)

(* rolling(window=w, min_periods=w): the w values ending at bar t, or     *)
(* nothing while fewer than w bars exist                                   *)
Window(s, w, t) == [i \in 1..w |-> s[t - w + i]]

WindowFull(s, w, t) == w >= 1 /\ t >= w /\ \A i \in (t - w + 1)..t : ~IsNaN(s[i])

(* rolling(...).mean() *)
RollingMean(s, w) ==
    [t \in 1..Len(s) |->
        IF WindowFull(s, w, t) THEN RDiv(SumUpTo(Window(s, w, t), w), Q(w, 1)) ELSE NaN]

(* the square of rolling(...).std(ddof=0): the population variance *)
RollingVar0(s, w) ==
    [t \in 1..Len(s) |->
        IF WindowFull(s, w, t)
        THEN LET win == Window(s, w, t)
                 mean == RDiv(SumUpTo(win, w), Q(w, 1))
                 sq == [i \in 1..w |-> RMul(RSub(win[i], mean), RSub(win[i], mean))]
             IN  RDiv(SumUpTo(sq, w), Q(w, 1))
        ELSE NaN]

(* df[f"ma_{w}"] = df[price_col].rolling(window=w, min_periods=w).mean() *)
add_moving_averages(close, windows) == [w \in windows |-> RollingMean(close, w)]

(* a faulty variant: the z-score is 0 where it has no value *)
add_zscoreZeroFilled(close, window) ==
    LET mean == RollingMean(close, window)
        var == RollingVar0(close, window)
    IN  [t \in 1..Len(close) |->
            LET num == RSub(close[t], mean[t])
            IN  IF IsNaN(num) \/ IsNaN(var[t]) \/ var[t] = Zero THEN Zero
                ELSE RDiv(SignedSquare(num), var[t])]

(* df[col_name] = (df[price_col] - mean) / std, as a signed square:       *)
(* NaN while the window is not full and where std = 0 (0 / 0)             *)
add_zscore(close, window) ==
    LET mean == RollingMean(close, window)
        var == RollingVar0(close, window)
    IN  [t \in 1..Len(close) |->
            LET num == RSub(close[t], mean[t])
            IN  IF IsNaN(num) \/ IsNaN(var[t]) THEN NaN
                ELSE IF var[t] = Zero THEN RDiv(num, Zero)
                ELSE RDiv(SignedSquare(num), var[t])]

(* df["ret"] = df[price_col].pct_change().fillna(0.0) *)
add_daily_returns(close) ==
    FillNa([t \in 1..Len(close) |->
               IF t = 1 THEN NaN ELSE RSub(RDiv(close[t], close[t - 1]), One)],
           Zero)

----------------------------------------------------------------------------
(* strategy.py *)

(* prepare_features(df, cfg): the table with ret, ma_<w> and zscore added *)
prepare_features(close, cfg) ==
    [ Close |-> close,
      ret |-> add_daily_returns(close),
      ma |-> add_moving_averages(close,
                 {cfg.mr_window, cfg.mom_short_window, cfg.mom_long_window}),
      zscore |-> add_zscore(close, cfg.mr_window) ]

(* df[col] = v: a column holding v on every bar *)
ConstColumn(n, v) == [t \in 1..n |-> v]

(* df.loc[mask, col] = v *)
LocAssign(col, mask, v) == [t \in 1..Len(col) |-> IF mask[t] THEN v ELSE col[t]]

(* a faulty variant: a bar without a z-score counts as an entry *)
MrEntryMaskUndefinedFires(df, cfg) ==
    [t \in 1..Len(df.zscore) |->
        IsNaN(df.zscore[t]) \/ RLt(df.zscore[t], SignedSquare(RNeg(cfg.mr_threshold)))]

(* df["zscore"] < -cfg.mr_threshold *)
MrEntryMask(df, cfg) ==
    [t \in 1..Len(df.zscore) |-> RLt(df.zscore[t], SignedSquare(RNeg(cfg.mr_threshold)))]

(* df["zscore"] > cfg.mr_threshold *)
MrExitMask(df, cfg) ==
    [t \in 1..Len(df.zscore) |-> RGt(df.zscore[t], SignedSquare(cfg.mr_threshold))]

(* mean_reversion_signals(df, cfg): the signal_mr column *)
mean_reversion_signals(df, cfg) ==
    LET s0 == ConstColumn(Len(df.Close), Zero)
        s1 == LocAssign(s0, MrEntryMask(df, cfg), One)
        s2 == LocAssign(s1, MrExitMask(df, cfg), Zero)
    IN  FillNa(FFill(s2), Zero)

(* df["ma_diff"] = df[short_col] - df[long_col] *)
MaDiff(df, cfg) ==
    [t \in 1..Len(df.Close) |->
        RSub(df.ma[cfg.mom_short_window][t], df.ma[cfg.mom_long_window][t])]

(* buy_mask = (df["ma_diff_prev"] <= 0) & (df["ma_diff"] > 0) *)
MomBuyMask(ma_diff, ma_diff_prev) ==
    [t \in 1..Len(ma_diff) |-> RLe(ma_diff_prev[t], Zero) /\ RGt(ma_diff[t], Zero)]

(* sell_mask = (df["ma_diff_prev"] >= 0) & (df["ma_diff"] < 0) *)
MomSellMask(ma_diff, ma_diff_prev) ==
    [t \in 1..Len(ma_diff) |-> RGe(ma_diff_prev[t], Zero) /\ RLt(ma_diff[t], Zero)]

(* momentum_signals(df, cfg): the signal_mom column *)
momentum_signals(df, cfg) ==
    LET ma_diff == MaDiff(df, cfg)
        ma_diff_prev == Shift1(ma_diff)
        s0 == ConstColumn(Len(df.Close), Zero)
        s1 == LocAssign(s0, MomBuyMask(ma_diff, ma_diff_prev), One)
        s2 == LocAssign(s1, MomSellMask(ma_diff, ma_diff_prev), Zero)
    IN  FillNa(FFill(s2), Zero)

(* a faulty variant: an unknown name is served by the momentum strategy *)
StrategyDispatchDefault(name) ==
    IF name = "mean_reversion" THEN "mean_reversion" ELSE "momentum"

(* the if / if / raise of build_strategy: the generator a name selects,   *)
(* or "raise" for raise ValueError(f"Unknown strategy name: {cfg.name}")  *)
StrategyDispatch(name) ==
    IF name = "mean_reversion" THEN "mean_reversion"
    ELSE IF name = "momentum" THEN "momentum"
    ELSE "raise"

(* build_strategy(df, cfg): the features are prepared first, then the     *)
(* generator is chosen by cfg.name.  The record gives what was raised     *)
(* and the StrategyResult returned, if any (its table and signal column). *)
build_strategy(close, cfg) ==
    LET df_feat == prepare_features(close, cfg)
        chosen == StrategyDispatch(cfg.name)
    IN  IF chosen = "mean_reversion"
        THEN [ raised |-> "none", signal_col |-> "signal_mr", data |-> <<df_feat>>,
               signal |-> <<mean_reversion_signals(df_feat, cfg)>> ]
        ELSE IF chosen = "momentum"
        THEN [ raised |-> "none", signal_col |-> "signal_mom", data |-> <<df_feat>>,
               signal |-> <<momentum_signals(df_feat, cfg)>> ]
        ELSE [ raised |-> "ValueError", signal_col |-> "", data |-> <<>>,
               signal |-> <<>> ]

----------------------------------------------------------------------------
(* The signal generators driven by a caller: a table of closes and a      *)
(* strategy configuration are chosen, the features are prepared, and one  *)
(* of the two generators is called on the prepared table.                 *)

MaxCloses == 5

CloseValues == {Q(1, 1), Q(2, 1), Q(3, 1)}
MrWindows == {2, 3}
MrThresholds == {Q(1, 2), One}
MomWindows == {<<1, 2>>, <<2, 3>>}

StrategyNames == {"mean_reversion", "momentum", "Momentum", "breakout", ""}

CloseTables == UNION { [1..n -> CloseValues] : n \in 0..MaxCloses }

StrategyConfigs ==
    { [ mr_window |-> w, mr_threshold |-> th,
        mom_short_window |-> m[1], mom_long_window |-> m[2] ] :
        w \in MrWindows, th \in MrThresholds, m \in MomWindows }

BtIdle == [phase |-> "idle"]

InitSG ==
    /\ ag = AgIdle
    /\ dl = DlIdle
    /\ bt = BtIdle
    /\ tb = TbIdle
    /\ ps = PsIdle
    /\ ms = MsIdle
    /\ sg \in { [ phase |-> "raw", close |-> c, cfg |-> k, df |-> <<>>, signal |-> <<>> ] :
                c \in CloseTables, k \in StrategyConfigs }

(* df_feat = prepare_features(df, cfg) *)
PrepareFeatures ==
    /\ sg.phase = "raw"
    /\ sg' = [sg EXCEPT !.phase = "features", !.df = <<prepare_features(sg.close, sg.cfg)>>]
    /\ UNCHANGED <<bt, tb, ps, ms, ag, dl>>

(* mean_reversion_signals(df_feat, cfg) *)
MeanReversionSignals ==
    /\ sg.phase = "features"
    /\ sg' = [sg EXCEPT !.phase = "signal_mr",
                        !.signal = mean_reversion_signals(sg.df[1], sg.cfg)]
    /\ UNCHANGED <<bt, tb, ps, ms, ag, dl>>

(* momentum_signals(df_feat, cfg) *)
MomentumSignals ==
    /\ sg.phase = "features"
    /\ sg' = [sg EXCEPT !.phase = "signal_mom",
                        !.signal = momentum_signals(sg.df[1], sg.cfg)]
    /\ UNCHANGED <<bt, tb, ps, ms, ag, dl>>

(* build_strategy(df, cfg) with cfg.name = name *)
BuildStrategy(name) ==
    /\ sg.phase = "raw"
    /\ sg' = [ phase |-> "built", close |-> sg.close, cfg |-> sg.cfg, name |-> name,
               result |-> build_strategy(sg.close, [name |-> name] @@ sg.cfg) ]
    /\ UNCHANGED <<bt, tb, ps, ms, ag, dl>>

NextSG ==
    \/ PrepareFeatures
    \/ MeanReversionSignals
    \/ MomentumSignals
    \/ \E name \in StrategyNames : BuildStrategy(name)

SpecSG == InitSG /\ [][NextSG]_vars

----------------------------------------------------------------------------
(* Properties of the signal generators (SpecSG) *)

SgDf == sg.df[1]

(* C1: the mean-reversion signal is a state carried from bar to bar: 1 on *)
(* a bar with zscore < -threshold, 0 on a bar with zscore > threshold,    *)
(* and on any other bar the signal of the bar before (0 before the first).*)
C1_MeanReversionCarried ==
    sg.phase = "signal_mr" =>
        \A t \in 1..Len(sg.signal) :
            sg.signal[t] =
                IF RLt(SgDf.zscore[t], SignedSquare(RNeg(sg.cfg.mr_threshold))) THEN One
                ELSE IF RGt(SgDf.zscore[t], SignedSquare(sg.cfg.mr_threshold)) THEN Zero
                ELSE IF t = 1 THEN Zero
                ELSE sg.signal[t - 1]

(* C2: the momentum signal is a state carried from bar to bar: 1 on a bar *)
(* where diff crosses from <= 0 to > 0, 0 on a bar where it crosses from  *)
(* >= 0 to < 0, and on any other bar the signal of the bar before.        *)
C2_MomentumCarried ==
    sg.phase = "signal_mom" =>
        LET diff == MaDiff(SgDf, sg.cfg)
        IN  \A t \in 1..Len(sg.signal) :
                sg.signal[t] =
                    IF t > 1 /\ RLe(diff[t - 1], Zero) /\ RGt(diff[t], Zero) THEN One
                    ELSE IF t > 1 /\ RGe(diff[t - 1], Zero) /\ RLt(diff[t], Zero) THEN Zero
                    ELSE IF t = 1 THEN Zero
                    ELSE sg.signal[t - 1]

(* the prepared table is at hand *)
SgPrepared == sg.phase \in {"features", "signal_mr", "signal_mom"}

(* the sum of the w closes ending at bar t *)
RECURSIVE CloseSum(_, _, _)
CloseSum(close, w, t) ==
    IF w = 0 THEN Zero ELSE RAdd(CloseSum(close, w - 1, t - 1), close[t])

(* w^2 times the squared deviation of the close of bar i from the mean of *)
(* the w closes ending at bar t                                           *)
ScaledSqDev(close, w, t, i) ==
    LET d == RSub(RMul(Q(w, 1), close[i]), CloseSum(close, w, t)) IN RMul(d, d)

(* w^3 times the population variance of the w closes ending at bar t *)
RECURSIVE ScaledVar(_, _, _, _)
ScaledVar(close, w, t, k) ==
    IF k = 0 THEN Zero
    ELSE RAdd(ScaledVar(close, w, t, k - 1), ScaledSqDev(close, w, t, t - k + 1))

(* C21: the z-score of window w is undefined on every bar before w        *)
(* observations exist and on every bar whose rolling population standard  *)
(* deviation is 0; on every other bar it is the finite value              *)
(* (close - mean) / std.  A bar with an undefined z-score satisfies       *)
(* neither the entry condition nor the exit condition.                    *)
C21_ZscoreUndefinedOrFinite ==
    SgPrepared =>
        \A t \in 1..Len(sg.close) :
            LET w == sg.cfg.mr_window
                z == SgDf.zscore[t]
            IN  /\ t < w => IsNaN(z)
                /\ (t >= w /\ ScaledVar(sg.close, w, t, w) = Zero) => IsNaN(z)
                /\ (t >= w /\ ScaledVar(sg.close, w, t, w) # Zero) =>
                       /\ z[2] # 0
                       /\ RMul(z, ScaledVar(sg.close, w, t, w)) =
                              RMul(Q(w, 1), SignedSquare(
                                  RSub(RMul(Q(w, 1), sg.close[t]), CloseSum(sg.close, w, t))))
                /\ IsNaN(z) => /\ ~MrEntryMask(SgDf, sg.cfg)[t]
                               /\ ~MrExitMask(SgDf, sg.cfg)[t]

(* a table with a bar before the window is full, a bar whose window holds *)
(* one price only, a bar that satisfies the entry condition and a bar     *)
(* that satisfies the exit condition                                      *)
C21_Witness ==
    /\ SgPrepared
    /\ \E t \in 1..Len(sg.close) : t >= sg.cfg.mr_window /\ IsNaN(SgDf.zscore[t])
    /\ \E t \in 1..Len(sg.close) : MrEntryMask(SgDf, sg.cfg)[t]
    /\ \E t \in 1..Len(sg.close) : MrExitMask(SgDf, sg.cfg)[t]

(* the entry condition of the generator that was called holds on bar t *)
EntryFires(t) ==
    IF sg.phase = "signal_mr"
    THEN RLt(SgDf.zscore[t], SignedSquare(RNeg(sg.cfg.mr_threshold)))
    ELSE /\ t > 1
         /\ RLe(MaDiff(SgDf, sg.cfg)[t - 1], Zero)
         /\ RGt(MaDiff(SgDf, sg.cfg)[t], Zero)

(* C24: every value of the signal of mean_reversion_signals and of        *)
(* momentum_signals is 0 or 1, never undefined, and the signal is 0 on    *)
(* every bar before the first bar on which the entry condition fires,     *)
(* the bars where the indicators are undefined included.                  *)
C24_SignalZeroOrOne ==
    sg.phase \in {"signal_mr", "signal_mom"} =>
        /\ Len(sg.signal) = Len(sg.close)
        /\ \A t \in 1..Len(sg.signal) :
               /\ sg.signal[t] \in {Zero, One}
               /\ (\A u \in 1..t : ~EntryFires(u)) => sg.signal[t] = Zero

(* a mean-reversion signal whose entry first fires on the last bar, after *)
(* bars without a z-score and a bar with one                              *)
C24_Witness ==
    /\ sg.phase = "signal_mr"
    /\ Len(sg.signal) >= 4
    /\ sg.signal[Len(sg.signal)] = One
    /\ \A t \in 1..(Len(sg.signal) - 1) : sg.signal[t] = Zero
    /\ \E t \in 1..(Len(sg.signal) - 1) : IsNaN(SgDf.zscore[t])
    /\ \E t \in 1..(Len(sg.signal) - 1) : ~IsNaN(SgDf.zscore[t])

(* a momentum signal with an entry *)
C24_WitnessMomentum ==
    /\ sg.phase = "signal_mom"
    /\ \E t \in 2..Len(sg.signal) : sg.signal[t] = One /\ sg.signal[t - 1] = Zero

SgBuilt == sg.phase = "built"

KnownStrategies == {"mean_reversion", "momentum"}

(* C16: build_strategy with a name other than "mean_reversion" and        *)
(* "momentum" raises ValueError and returns no signal series; with one of *)
(* the two names it returns the signal of the generator of that name.     *)
C16_UnknownNameRaises ==
    SgBuilt =>
        /\ sg.name \notin KnownStrategies =>
               /\ sg.result.raised = "ValueError"
               /\ sg.result.signal = <<>>
               /\ sg.result.data = <<>>
        /\ sg.name = "mean_reversion" =>
               /\ sg.result.raised = "none"
               /\ sg.result.signal =
                      <<mean_reversion_signals(prepare_features(sg.close, sg.cfg), sg.cfg)>>
        /\ sg.name = "momentum" =>
               /\ sg.result.raised = "none"
               /\ sg.result.signal =
                      <<momentum_signals(prepare_features(sg.close, sg.cfg), sg.cfg)>>

(* a call with a name that differs from "momentum" by its case, on a      *)
(* table where the momentum strategy has a signal to give                 *)
C16_Witness ==
    /\ SgBuilt
    /\ sg.name = "Momentum"
    /\ sg.result.raised = "ValueError"
    /\ \E t \in 1..Len(sg.close) :
           momentum_signals(prepare_features(sg.close, sg.cfg), sg.cfg)[t] = One

(* the longest rolling window build_strategy needs *)
LongestWindow(cfg) ==
    IF cfg.mr_window > cfg.mom_long_window THEN cfg.mr_window ELSE cfg.mom_long_window

(* C20: build_strategy on fewer bars than the longest rolling window it   *)
(* needs reports an error instead of returning a signal series.           *)
C20_InsufficientDataReported ==
    (SgBuilt /\ sg.name \in KnownStrategies /\ Len(sg.close) < LongestWindow(sg.cfg)) =>
        sg.result.raised # "none"

(* What the code does instead: on fewer bars than the window of the       *)
(* chosen strategy it returns a signal that is 0 on every bar.            *)
C20_ShortTableGivesZeros ==
    ( /\ SgBuilt
      /\ \/ sg.name = "mean_reversion" /\ Len(sg.close) < sg.cfg.mr_window
         \/ sg.name = "momentum" /\ Len(sg.close) < sg.cfg.mom_long_window ) =>
        /\ sg.result.raised = "none"
        /\ sg.result.signal = <<[t \in 1..Len(sg.close) |-> Zero]>>

----------------------------------------------------------------------------
(* market_state.py: the regime classifier.  A table of bars has the       *)
(* columns High, Low and Close.                                           *)

AtrWindow == 14
AdxWindow == 14
BollingerWindow == 20
BollingerNumStd == 2
MaShortWindow == 20
MaLongWindow == 60
AdxScale == 25
StrongTrend == Q(1, 2)
HighVolThreshold == Q(3, 10)
TradingDays == 252

(* Series.diff(): the change from the bar before, NaN on bar 0 *)
Diff(s) == [t \in 1..Len(s) |-> IF t = 1 THEN NaN ELSE RSub(s[t], s[t - 1])]

(* s[s < 0] = 0: a NaN is not below 0 and stays *)
ZeroNegatives(s) == [t \in 1..Len(s) |-> IF RLt(s[t], Zero) THEN Zero ELSE s[t]]

(* pd.concat([a, b, c], axis=1).max(axis=1): the row maximum, NaN skipped *)
RowMax3(a, b, c) == [t \in 1..Len(a) |-> MaxUpTo(<<a[t], b[t], c[t]>>, 3)]

(* tr = max(high - low, |high - close.shift(1)|, |low - close.shift(1)|) *)
TrueRange(df) ==
    LET prev == Shift1(df.Close)
        tr1 == [t \in 1..Len(df.Close) |-> RSub(df.High[t], df.Low[t])]
        tr2 == [t \in 1..Len(df.Close) |-> RAbs(RSub(df.High[t], prev[t]))]
        tr3 == [t \in 1..Len(df.Close) |-> RAbs(RSub(df.Low[t], prev[t]))]
    IN  RowMax3(tr1, tr2, tr3)

(* calculate_atr(df, window): atr = tr.rolling(window=window).mean() *)
calculate_atr(df, window) == RollingMean(TrueRange(df), window)

(* plus_dm = high.diff(); plus_dm[plus_dm < 0] = 0 *)
PlusDM(df) == ZeroNegatives(Diff(df.High))

(* minus_dm = -low.diff(); minus_dm[minus_dm < 0] = 0 *)
MinusDM(df) == ZeroNegatives([t \in 1..Len(df.Low) |-> RNeg(Diff(df.Low)[t])])

(* 100 * (dm.rolling(window).mean() / tr.rolling(window).mean()) *)
DirectionalIndex(dm, tr, window) ==
    LET num == RollingMean(dm, window)
        den == RollingMean(tr, window)
    IN  [t \in 1..Len(dm) |-> RMul(Q(100, 1), RDiv(num[t], den[t]))]

(* dx = 100 * (plus_di - minus_di).abs() / (plus_di + minus_di) *)
DX(plus_di, minus_di) ==
    [t \in 1..Len(plus_di) |->
        RDiv(RMul(Q(100, 1), RAbs(RSub(plus_di[t], minus_di[t]))),
             RAdd(plus_di[t], minus_di[t]))]

(* calculate_adx(df, window): adx = dx.rolling(window=window).mean() *)
calculate_adx(df, window) ==
    LET tr == calculate_atr(df, 1)
        plus_di == DirectionalIndex(PlusDM(df), tr, window)
        minus_di == DirectionalIndex(MinusDM(df), tr, window)
    IN  RollingMean(DX(plus_di, minus_di), window)

(* the square of close.rolling(window=window).std(): the sample variance *)
(* (ddof = 1) of a full window, NaN for a window of one bar               *)
RollingVar1(s, w) ==
    [t \in 1..Len(s) |-> IF WindowFull(s, w, t) THEN SampleVar(Window(s, w, t)) ELSE NaN]

(* calculate_bollinger_bands(df, window, num_std): the middle band ma and *)
(* the relative width (upper - lower) / ma = 2 * num_std * std / ma.  The *)
(* width has a square root in it; the column holds its signed square      *)
(* sign(width) * width^2 = (2 * num_std)^2 * var / (ma * |ma|).           *)
calculate_bollinger_bands(df, window, num_std) ==
    LET ma == RollingMean(df.Close, window)
        var == RollingVar1(df.Close, window)
        k == Q(4 * num_std * num_std, 1)
    IN  [ ma |-> ma,
          width |-> [t \in 1..Len(df.Close) |->
                        RDiv(RMul(k, var[t]), RMul(ma[t], RAbs(ma[t])))] ]

(* Series.pct_change(): close[t] / close[t-1] - 1, NaN on bar 0 *)
PctChange(s) ==
    [t \in 1..Len(s) |-> IF t = 1 THEN NaN ELSE RSub(RDiv(s[t], s[t - 1]), One)]

(* Series.tail(k), k >= 0: the last k entries, or all of them if fewer *)
SeriesTail(s, k) ==
    LET n == Len(s)
        m == IF k < n THEN k ELSE n
    IN  [i \in 1..m |-> s[n - m + i]]

(* volatility = returns.tail(lookback).std() * np.sqrt(252), kept as      *)
(* sqrt(var * 252)                                                         *)
Volatility(df, lookback) ==
    <<"sqrt", RMul(SampleVar(SeriesTail(PctChange(df.Close), lookback)), Q(TradingDays, 1))>>

(* volatility > 0.3, on sqrt(v): v > 0.3^2; false for NaN *)
VolatilityHigh(volatility) ==
    RGt(volatility[2], RMul(HighVolThreshold, HighVolThreshold))

(* a faulty variant: "not <=" in place of ">", which holds for a NaN *)
IsBullishNotBelow(ma_short, ma_long, current_price) ==
    ~RLe(ma_short, ma_long) /\ ~RLe(current_price, ma_short)

(* is_bullish = (ma_short > ma_long) and (current_price > ma_short) *)
IsBullish(ma_short, ma_long, current_price) ==
    RGt(ma_short, ma_long) /\ RGt(current_price, ma_short)

(* is_bearish = (ma_short < ma_long) and (current_price < ma_short) *)
IsBearish(ma_short, ma_long, current_price) ==
    RLt(ma_short, ma_long) /\ RLt(current_price, ma_short)

(* a faulty variant: the ADX is normalised without the cap at 1 *)
TrendStrengthUncapped(current_adx) ==
    IF ~IsNaN(current_adx) THEN RDiv(current_adx, Q(AdxScale, 1)) ELSE Zero

(* trend_strength = min(current_adx / 25.0, 1.0) if not pd.isna(current_adx) else 0.0 *)
TrendStrength(current_adx) ==
    IF ~IsNaN(current_adx) THEN RMin2(RDiv(current_adx, Q(AdxScale, 1)), One) ELSE Zero

(* a faulty variant: a strong trend that is not bullish counts as falling *)
RegimeNoRanging(trend_strength, is_bullish, is_bearish, volatility) ==
    IF RGt(trend_strength, StrongTrend)
    THEN (IF is_bullish THEN "TRENDING_UP" ELSE "TRENDING_DOWN")
    ELSE (IF VolatilityHigh(volatility) THEN "HIGH_VOLATILITY" ELSE "LOW_VOLATILITY")

(* the if / elif / else of lines 151-162 *)
Regime(trend_strength, is_bullish, is_bearish, volatility) ==
    IF RGt(trend_strength, StrongTrend)
    THEN (IF is_bullish THEN "TRENDING_UP"
          ELSE IF is_bearish THEN "TRENDING_DOWN"
          ELSE "RANGING")
    ELSE (IF VolatilityHigh(volatility) THEN "HIGH_VOLATILITY" ELSE "LOW_VOLATILITY")

(* x if not pd.isna(x) else 0.0 *)
NaNToZero(x) == IF ~IsNaN(x) THEN x ELSE Zero

(* Lines 128-173 of identify_market_state, given the atr and adx Series   *)
(* of lines 126-127.  On a table without bars the first .iloc[-1] raises  *)
(* IndexError.  The record gives what was raised, the last-row values     *)
(* read from the indicators and the returned MarketState, if any.         *)
MarketStateFrom(df, lookback, atr, adx) ==
    LET n == Len(df.Close)
        current_atr == atr[n]
        current_adx == adx[n]
        current_bb_width ==
            calculate_bollinger_bands(df, BollingerWindow, BollingerNumStd).width[n]
        volatility == Volatility(df, lookback)
        ma_short == RollingMean(df.Close, MaShortWindow)[n]
        ma_long == RollingMean(df.Close, MaLongWindow)[n]
        current_price == df.Close[n]
        is_bullish == IsBullish(ma_short, ma_long, current_price)
        is_bearish == IsBearish(ma_short, ma_long, current_price)
        trend_strength == TrendStrength(current_adx)
    IN  IF n = 0
        THEN [raised |-> "IndexError", current |-> <<>>, state |-> <<>>]
        ELSE [ raised |-> "none",
               current |-> << [ adx |-> current_adx, atr |-> current_atr,
                                bb_width |-> current_bb_width,
                                ma_short |-> ma_short, ma_long |-> ma_long,
                                price |-> current_price ] >>,
               state |-> << [ regime |-> Regime(trend_strength, is_bullish,
                                                 is_bearish, volatility),
                              volatility |-> volatility,
                              trend_strength |-> trend_strength,
                              adx |-> NaNToZero(current_adx),
                              atr |-> NaNToZero(current_atr),
                              bollinger_width |-> NaNToZero(current_bb_width),
                              is_bullish |-> is_bullish,
                              is_bearish |-> is_bearish ] >> ]

(* identify_market_state(df, lookback): the caller's table is copied on   *)
(* entry and only read                                                    *)
identify_market_state(df, lookback) ==
    MarketStateFrom(df, lookback, calculate_atr(df, AtrWindow), calculate_adx(df, AdxWindow))

(* a faulty variant: a regime without a branch of its own gets no name *)
RecommendationPartial(market_state) ==
    IF market_state.regime \in {"TRENDING_UP", "TRENDING_DOWN"} THEN "momentum"
    ELSE IF market_state.regime = "RANGING" THEN "mean_reversion"
    ELSE IF market_state.regime = "HIGH_VOLATILITY" THEN "mean_reversion"
    ELSE "none"

(* get_optimal_strategy_for_regime(market_state) *)
get_optimal_strategy_for_regime(market_state) ==
    IF market_state.regime \in {"TRENDING_UP", "TRENDING_DOWN"} THEN "momentum"
    ELSE IF market_state.regime = "RANGING" THEN "mean_reversion"
    ELSE IF market_state.regime = "HIGH_VOLATILITY" THEN "mean_reversion"
    ELSE "momentum"

----------------------------------------------------------------------------
(* Tables as objects.  A DataFrame is an object that several names can    *)
(* refer to: a stage that writes a column through its parameter writes    *)
(* the caller's table unless it has taken a copy first.  The heap is a    *)
(* sequence of tables, a reference is an index into it, and a table is a  *)
(* function from column names to columns.  A call gives the heap after    *)
(* the call and the reference it returns (0 when it returns no table).    *)

(* df.copy(): a new object with the same columns *)
CopyTable(h, df) == [heap |-> Append(h, h[df]), ref |-> Len(h) + 1]

(* df[name] = col, through the reference df *)
StoreColumn(h, df, name, col) == [h EXCEPT ![df] = (name :> col) @@ h[df]]

(* f"ma_{w}" *)
MaName(w) == "ma_" \o ToString(w)

(* the columns of a prepared table, as the signal generators read them *)
FeatureView(table, cfg) ==
    [ Close |-> table.Close,
      ret |-> table.ret,
      ma |-> [w \in {cfg.mr_window, cfg.mom_short_window, cfg.mom_long_window} |->
                 table[MaName(w)]],
      zscore |-> table.zscore ]

(* add_daily_returns(df): df["ret"] = ...; return df *)
call_add_daily_returns(h, df) ==
    [ heap |-> StoreColumn(h, df, "ret", add_daily_returns(h[df].Close)), ref |-> df ]

(* add_moving_averages(df, windows): for w in windows: df[f"ma_{w}"] = ...; return df *)
RECURSIVE call_add_moving_averages(_, _, _)
call_add_moving_averages(h, df, windows) ==
    IF windows = <<>> THEN [heap |-> h, ref |-> df]
    ELSE LET w == Head(windows)
             col == add_moving_averages(h[df].Close, {w})[w]
         IN  call_add_moving_averages(StoreColumn(h, df, MaName(w), col), df, Tail(windows))

(* add_zscore(df, window): df[col_name] = ...; return df *)
call_add_zscore(h, df, window) ==
    [ heap |-> StoreColumn(h, df, "zscore", add_zscore(h[df].Close, window)), ref |-> df ]

(* prepare_features(df, cfg): df = df.copy(), then the three add_* calls  *)
(* on the copy                                                            *)
call_prepare_features(h, df, cfg) ==
    LET c == CopyTable(h, df)
        r1 == call_add_daily_returns(c.heap, c.ref)
        r2 == call_add_moving_averages(r1.heap, r1.ref,
                  <<cfg.mr_window, cfg.mom_short_window, cfg.mom_long_window>>)
    IN  call_add_zscore(r2.heap, r2.ref, cfg.mr_window)

(* mean_reversion_signals(df, cfg): df = df.copy(); the signal column is  *)
(* written to the copy, which is returned in the StrategyResult           *)
call_mean_reversion_signals(h, df, cfg) ==
    LET c == CopyTable(h, df)
        col == mean_reversion_signals(FeatureView(c.heap[c.ref], cfg), cfg)
    IN  [ heap |-> StoreColumn(c.heap, c.ref, "signal_mr", col), ref |-> c.ref ]

(* momentum_signals(df, cfg): df = df.copy(); ma_diff, ma_diff_prev and   *)
(* the signal column are written to the copy                              *)
call_momentum_signals(h, df, cfg) ==
    LET c == CopyTable(h, df)
        view == FeatureView(c.heap[c.ref], cfg)
        h1 == StoreColumn(c.heap, c.ref, "ma_diff", MaDiff(view, cfg))
        h2 == StoreColumn(h1, c.ref, "ma_diff_prev", Shift1(MaDiff(view, cfg)))
    IN  [ heap |-> StoreColumn(h2, c.ref, "signal_mom", momentum_signals(view, cfg)),
          ref |-> c.ref ]

(* build_strategy(df, cfg): df_feat = prepare_features(df, cfg), then the *)
(* generator named by cfg.name; an unknown name raises and returns none   *)
call_build_strategy(h, df, cfg) ==
    LET f == call_prepare_features(h, df, cfg)
        chosen == StrategyDispatch(cfg.name)
    IN  IF chosen = "mean_reversion" THEN call_mean_reversion_signals(f.heap, f.ref, cfg)
        ELSE IF chosen = "momentum" THEN call_momentum_signals(f.heap, f.ref, cfg)
        ELSE [heap |-> f.heap, ref |-> 0]

(* identify_market_state(df, lookback): df = df.copy(); the copy is only  *)
(* read, and a MarketState is returned, no table                          *)
call_identify_market_state(h, df, lookback) ==
    LET c == CopyTable(h, df)
    IN  [ heap |-> c.heap, ref |-> 0,
          raised |-> identify_market_state(c.heap[c.ref], lookback).raised ]

(* run_backtest(df, signal_col, cfg): df = df.copy(); net_ret and equity  *)
(* are written to the copy, which is returned in the BacktestResult       *)
call_run_backtest(h, df, signal_col, cfg) ==
    LET c == CopyTable(h, df)
        r == run_backtest([signal |-> c.heap[c.ref][signal_col],
                           ret |-> c.heap[c.ref].ret], cfg)
        h1 == StoreColumn(c.heap, c.ref, "net_ret", r.data.net_ret)
    IN  [ heap |-> StoreColumn(h1, c.ref, "equity", r.data.equity), ref |-> c.ref ]

----------------------------------------------------------------------------
(* A caller that owns a table and passes it to the stages.  The caller    *)
(* holds one reference (held) and calls a stage on it; before keeps the   *)
(* columns the table had when the call was made.  The caller may go on    *)
(* with the table a stage has returned, dropping every other reference.   *)

MaxTbBars == 3
MaxTbCalls == 3

TbCloseValues == {Q(1, 1), Q(2, 1)}

(* bars around a close: High = Close + 1, Low = Close - 1 *)
BarsAround(close) ==
    [ High |-> [t \in 1..Len(close) |-> RAdd(close[t], One)],
      Low |-> [t \in 1..Len(close) |-> RSub(close[t], One)],
      Close |-> close ]

TbTables == { BarsAround(c) : c \in UNION { [1..n -> TbCloseValues] : n \in 0..MaxTbBars } }

TbStrategyConfigs ==
    { [ name |-> nm, mr_window |-> 2, mr_threshold |-> Q(1, 2),
        mom_short_window |-> 1, mom_long_window |-> 2 ] :
        nm \in {"mean_reversion", "momentum"} }

TbBacktestConfig == [max_position |-> One, fee_rate |-> Q(1, 10), initial_cash |-> Q(100000, 1)]

TbLookbacks == {2}

InitTB ==
    /\ ag = AgIdle
    /\ dl = DlIdle
    /\ sg = SgIdle
    /\ bt = BtIdle
    /\ ps = PsIdle
    /\ ms = MsIdle
    /\ tb \in { [ phase |-> "own", heap |-> <<d>>, held |-> 1, before |-> d,
                  stage |-> "none", ret |-> 0, calls |-> 0, cfg |-> k ] :
                d \in TbTables, k \in TbStrategyConfigs }

TbHas(cols) == cols \subseteq DOMAIN tb.heap[tb.held]

(* the caller's state after the call of a stage that gave r *)
TbCalled(stage, r) ==
    /\ tb.calls < MaxTbCalls
    /\ tb' = [tb EXCEPT !.phase = "called", !.heap = r.heap,
                        !.before = tb.heap[tb.held], !.stage = stage,
                        !.ret = r.ref, !.calls = @ + 1]
    /\ UNCHANGED <<sg, bt, ps, ms, ag, dl>>

TbFeatureColumns ==
    {"Close", "ret", "zscore", MaName(tb.cfg.mr_window),
     MaName(tb.cfg.mom_short_window), MaName(tb.cfg.mom_long_window)}

CallAddDailyReturns ==
    /\ TbHas({"Close"})
    /\ TbCalled("add_daily_returns", call_add_daily_returns(tb.heap, tb.held))

CallAddMovingAverages ==
    /\ TbHas({"Close"})
    /\ TbCalled("add_moving_averages",
                call_add_moving_averages(tb.heap, tb.held,
                    <<tb.cfg.mom_short_window, tb.cfg.mom_long_window>>))

CallAddZscore ==
    /\ TbHas({"Close"})
    /\ TbCalled("add_zscore", call_add_zscore(tb.heap, tb.held, tb.cfg.mr_window))

CallPrepareFeatures ==
    /\ TbHas({"Close"})
    /\ TbCalled("prepare_features", call_prepare_features(tb.heap, tb.held, tb.cfg))

CallMeanReversionSignals ==
    /\ TbHas(TbFeatureColumns)
    /\ TbCalled("mean_reversion_signals",
                call_mean_reversion_signals(tb.heap, tb.held, tb.cfg))

CallMomentumSignals ==
    /\ TbHas(TbFeatureColumns)
    /\ TbCalled("momentum_signals", call_momentum_signals(tb.heap, tb.held, tb.cfg))

CallBuildStrategy ==
    /\ TbHas({"Close"})
    /\ TbCalled("build_strategy", call_build_strategy(tb.heap, tb.held, tb.cfg))

CallIdentifyMarketState ==
    /\ TbHas({"High", "Low", "Close"})
    /\ \E lookback \in TbLookbacks :
           TbCalled("identify_market_state",
                    call_identify_market_state(tb.heap, tb.held, lookback))

CallRunBacktest ==
    \E signal_col \in {"signal_mr", "signal_mom"} :
        /\ TbHas({signal_col, "ret"})
        /\ TbCalled("run_backtest",
                    call_run_backtest(tb.heap, tb.held, signal_col, TbBacktestConfig))

(* the caller goes on with the returned table and drops the others *)
UseReturned ==
    /\ tb.phase = "called"
    /\ tb.ret # 0
    /\ tb.ret # tb.held
    /\ tb' = [tb EXCEPT !.phase = "own", !.heap = <<tb.heap[tb.ret]>>, !.held = 1,
                        !.before = tb.heap[tb.ret], !.stage = "none", !.ret = 0]
    /\ UNCHANGED <<sg, bt, ps, ms, ag, dl>>

NextTB ==
    \/ CallAddDailyReturns
    \/ CallAddMovingAverages
    \/ CallAddZscore
    \/ CallPrepareFeatures
    \/ CallMeanReversionSignals
    \/ CallMomentumSignals
    \/ CallBuildStrategy
    \/ CallIdentifyMarketState
    \/ CallRunBacktest
    \/ UseReturned

SpecTB == InitTB /\ [][NextTB]_vars

----------------------------------------------------------------------------
(* Properties of the stages as seen by the owner of a table (SpecTB) *)

TbCopying ==
    {"prepare_features", "mean_reversion_signals", "momentum_signals",
     "build_strategy", "identify_market_state", "run_backtest"}

(* C11: after a stage has returned, the table the caller passed has the   *)
(* columns and the values it had before the call.                         *)
C11_InputTableUnchanged ==
    tb.phase = "called" => tb.heap[tb.held] = tb.before

(* What the code guarantees instead: the stages that start with           *)
(* df = df.copy() leave the caller's table as it was.                     *)
C11_CopyingStagesKeepInput ==
    (tb.phase = "called" /\ tb.stage \in TbCopying) => tb.heap[tb.held] = tb.before

----------------------------------------------------------------------------
(* position_sizing.py: the sizing functions.  A call gives what it raised *)
(* ("none" when it returned) and the value it returned.                   *)

KellyCap == Q(1, 2)

(* Python's min(a, b) and max(a, b): the first argument unless the second *)
(* is strictly smaller (larger); a NaN first argument is returned as is   *)
PyMin(a, b) == IF RLt(b, a) THEN b ELSE a

PyMax(a, b) == IF RGt(b, a) THEN b ELSE a

(* if avg_loss == 0 or win_rate <= 0: return 0.0 *)
KellyGuard(win_rate, avg_loss) == avg_loss = Zero \/ RLe(win_rate, Zero)

(* b = avg_win / abs(avg_loss) *)
KellyOdds(avg_win, avg_loss) == RDiv(avg_win, RAbs(avg_loss))

(* (p * b - q) / b divides by b = 0 when avg_win = 0: on Python floats    *)
(* this raises ZeroDivisionError, on numpy.float64 operands (npfloat) it  *)
(* gives -inf or NaN                                                      *)
KellyRaises(win_rate, avg_win, avg_loss, npfloat) ==
    ~KellyGuard(win_rate, avg_loss) /\ ~npfloat /\ KellyOdds(avg_win, avg_loss) = Zero

(* kelly = (p * b - q) / b *)
KellyRaw(p, b) == RDiv(RSub(RMul(p, b), RSub(One, p)), b)

(* a faulty variant: the cap of 0.5 is left out *)
KellyClipNoCap(kelly) == PyMax(Zero, kelly)

(* kelly = max(0.0, min(kelly, 0.5)) *)
KellyClip(kelly) == PyMax(Zero, PyMin(kelly, KellyCap))

(* kelly_position_size(win_rate, avg_win, avg_loss, kelly_fraction) *)
kelly_position_size(win_rate, avg_win, avg_loss, kelly_fraction, npfloat) ==
    IF KellyGuard(win_rate, avg_loss) THEN [raised |-> "none", value |-> <<Zero>>]
    ELSE IF KellyRaises(win_rate, avg_win, avg_loss, npfloat)
    THEN [raised |-> "ZeroDivisionError", value |-> <<>>]
    ELSE [ raised |-> "none",
           value |-> << RMul(KellyClip(KellyRaw(win_rate, KellyOdds(avg_win, avg_loss))),
                             kelly_fraction) >> ]

(* a faulty variant: the position is returned without the limit *)
RiskParityUncapped(position, max_position) == position

(* return min(position, max_position) *)
RiskParityCapped(position, max_position) == PyMin(position, max_position)

(* risk_parity_position_size(volatility, target_volatility, max_position) *)
risk_parity_position_size(volatility, target_volatility, max_position) ==
    IF RLe(volatility, Zero) THEN [raised |-> "none", value |-> <<Zero>>]
    ELSE [ raised |-> "none",
           value |-> << RiskParityCapped(RDiv(target_volatility, volatility),
                                         max_position) >> ]

(* realized_vol = recent_returns.std() * np.sqrt(252), kept as            *)
(* sqrt(var * 252)                                                        *)
RealizedVol(returns, lookback) ==
    <<"sqrt", RMul(SampleVar(SeriesTail(returns, lookback)), Q(TradingDays, 1))>>

(* realized_vol <= 0, on sqrt(v): v <= 0; false for NaN *)
RealizedVolNotPositive(realized_vol) == RLe(realized_vol[2], Zero)

(* min(position, max_position) with position = target / sqrt(v), v > 0 or *)
(* NaN: max_position < position is compared on the signed squares.  The   *)
(* value is a rational <<"q", r>> or the quotient kept as an expression.  *)
VolTargetCapped(target_volatility, realized_vol, max_position) ==
    LET position2 == RDiv(SignedSquare(target_volatility), realized_vol[2])
    IN  IF RLt(SignedSquare(max_position), position2) THEN <<"q", max_position>>
        ELSE IF IsNaN(position2) THEN <<"q", NaN>>
        ELSE IF position2 = Zero THEN <<"q", Zero>>
        ELSE <<"quot", <<"q", target_volatility>>, realized_vol>>

(* volatility_targeting_position_size(returns, target_volatility,         *)
(* lookback, max_position), lookback >= 0                                 *)
volatility_targeting_position_size(returns, target_volatility, lookback, max_position) ==
    IF Len(returns) < lookback THEN [raised |-> "none", value |-> <<"q", Zero>>]
    ELSE LET realized_vol == RealizedVol(returns, lookback)
         IN  IF RealizedVolNotPositive(realized_vol)
             THEN [raised |-> "none", value |-> <<"q", Zero>>]
             ELSE [ raised |-> "none",
                    value |-> VolTargetCapped(target_volatility, realized_vol,
                                              max_position) ]

----------------------------------------------------------------------------
(* position_sizing.py: calculate_trade_statistics(equity_curve, signals). *)
(* The two Series share their index; a bar is named by its place 1..n.    *)

(* position_changes[position_changes == 1].index *)
EntryPoints(position_changes) ==
    {t \in 1..Len(position_changes) : position_changes[t] = One}

(* position_changes[position_changes == -1].index *)
ExitPoints(position_changes) ==
    {t \in 1..Len(position_changes) : position_changes[t] = Q(-1, 1)}

(* exits_after = exit_points[exit_points > entry] *)
ExitsAfter(exit_points, entry) == {x \in exit_points : x > entry}

(* a faulty variant: the last exit after the entry is taken *)
LastExit(exits_after) == CHOOSE x \in exits_after : \A y \in exits_after : x >= y

(* exits_after[0]: the index is in the order of the bars *)
FirstExit(exits_after) == CHOOSE x \in exits_after : \A y \in exits_after : x <= y

(* a faulty variant: the bar of the entry is left out *)
PeriodReturnsAfterEntry(returns, entry, exit) ==
    [i \in 1..(exit - entry) |-> returns[entry + i]]

(* period_returns = returns.loc[entry:exit]: both ends are included *)
PeriodReturns(returns, entry, exit) ==
    [i \in 1..(exit - entry + 1) |-> returns[entry + i - 1]]

(* trade_return = (1 + period_returns).prod() - 1: prod() skips NaN *)
TradeReturn(period_returns) ==
    RSub(ProdUpTo([i \in 1..Len(period_returns) |-> RAdd(One, period_returns[i])],
                  Len(period_returns)),
         One)

(* for entry in entry_points: ... trade_returns.append(trade_return), from *)
(* bar t on; each trade is kept with its entry and its exit                *)
RECURSIVE TradeLoop(_, _, _, _)
TradeLoop(returns, entry_points, exit_points, t) ==
    IF t > Len(returns) THEN <<>>
    ELSE LET exits_after == ExitsAfter(exit_points, t)
         IN  (IF t \in entry_points /\ exits_after # {}
              THEN << [ entry |-> t, exit |-> FirstExit(exits_after),
                        trade_return |->
                            TradeReturn(PeriodReturns(returns, t, FirstExit(exits_after))) ] >>
              ELSE <<>>)
             \o TradeLoop(returns, entry_points, exit_points, t + 1)

(* numpy mean of a non-empty array *)
ArrayMean(a) == RDiv(SumUpTo(a, Len(a)), Q(Len(a), 1))

(* wins = trade_returns[trade_returns > 0] *)
Wins(trade_returns) == SelectSeq(trade_returns, LAMBDA r : RGt(r, Zero))

(* losses = trade_returns[trade_returns < 0] *)
Losses(trade_returns) == SelectSeq(trade_returns, LAMBDA r : RLt(r, Zero))

(* a faulty variant: the mean loss keeps its sign *)
AvgLossSigned(losses) == IF Len(losses) > 0 THEN ArrayMean(losses) ELSE Zero

(* avg_loss = abs(losses.mean()) if len(losses) > 0 else 0.0 *)
AvgLoss(losses) == IF Len(losses) > 0 THEN RAbs(ArrayMean(losses)) ELSE Zero

(* avg_win = wins.mean() if len(wins) > 0 else 0.0 *)
AvgWin(wins) == IF Len(wins) > 0 THEN ArrayMean(wins) ELSE Zero

(* the dict returned when no trade is found *)
NoTradeStatistics ==
    [win_rate |-> Zero, avg_win |-> Zero, avg_loss |-> Zero, num_trades |-> 0]

(* The whole call.  The record keeps the locals of the call and the       *)
(* returned dict (stats).                                                 *)
calculate_trade_statistics(equity_curve, signals) ==
    LET returns == PctChange(equity_curve)
        position_changes == Diff(signals)
        entry_points == EntryPoints(position_changes)
        exit_points == ExitPoints(position_changes)
        trades == IF entry_points = {} THEN <<>>
                  ELSE TradeLoop(returns, entry_points, exit_points, 1)
        trade_returns == [i \in 1..Len(trades) |-> trades[i].trade_return]
        wins == Wins(trade_returns)
        losses == Losses(trade_returns)
    IN  [ returns |-> returns,
          entry_points |-> entry_points,
          exit_points |-> exit_points,
          trades |-> trades,
          stats |-> IF entry_points = {} \/ Len(trade_returns) = 0 THEN NoTradeStatistics
                    ELSE [ win_rate |-> Q(Len(wins), Len(trade_returns)),
                           avg_win |-> AvgWin(wins),
                           avg_loss |-> AvgLoss(losses),
                           num_trades |-> Len(trade_returns) ] ]

----------------------------------------------------------------------------
(* The sizing functions driven by a caller: the arguments of one call are *)
(* chosen, and the function named is called on them.                      *)

MaxPsReturns == 3
MaxLookback == 3

WinRates == {Q(-1, 2), Zero, Q(1, 4), Q(1, 2), One}
AvgWins == {Zero, Q(1, 2), One, Q(2, 1)}
AvgLosses == {Q(-2, 1), Q(-1, 1), Zero, Q(1, 2)}
KellyFractions == {Zero, Q(1, 4), One}

PsVolatilities == {Q(-1, 10), Zero, Q(1, 10), Q(1, 5), One}
TargetVolatilities == {Zero, Q(3, 20), One}
PsMaxPositions == {Zero, Q(1, 2), One}

PsReturnValues == {Q(-1, 10), Zero, Q(1, 10)}
PsReturnSeries == UNION { [1..n -> PsReturnValues] : n \in 0..MaxPsReturns }

KellyArgs ==
    [ win_rate : WinRates, avg_win : AvgWins, avg_loss : AvgLosses,
      kelly_fraction : KellyFractions, npfloat : BOOLEAN ]

RiskParityArgs ==
    [ volatility : PsVolatilities, target_volatility : TargetVolatilities,
      max_position : PsMaxPositions ]

VolTargetingArgs ==
    [ returns : PsReturnSeries, target_volatility : TargetVolatilities \ {One},
      lookback : 0..MaxLookback, max_position : PsMaxPositions \ {Zero} ]

PsStart(fn, args) == [phase |-> "args", fn |-> fn, args |-> args]

InitPS ==
    /\ ag = AgIdle
    /\ dl = DlIdle
    /\ sg = SgIdle
    /\ bt = BtIdle
    /\ tb = TbIdle
    /\ ms = MsIdle
    /\ ps \in { PsStart("kelly_position_size", a) : a \in KellyArgs }
          \cup { PsStart("risk_parity_position_size", a) : a \in RiskParityArgs }
          \cup { PsStart("volatility_targeting_position_size", a) : a \in VolTargetingArgs }

PsReturned(result) ==
    /\ ps' = [phase |-> "done", fn |-> ps.fn, args |-> ps.args, result |-> result]
    /\ UNCHANGED <<sg, bt, tb, ms, ag, dl>>

KellyPositionSize ==
    /\ ps.phase = "args"
    /\ ps.fn = "kelly_position_size"
    /\ PsReturned(kelly_position_size(ps.args.win_rate, ps.args.avg_win, ps.args.avg_loss,
                                      ps.args.kelly_fraction, ps.args.npfloat))

RiskParityPositionSize ==
    /\ ps.phase = "args"
    /\ ps.fn = "risk_parity_position_size"
    /\ PsReturned(risk_parity_position_size(ps.args.volatility, ps.args.target_volatility,
                                            ps.args.max_position))

VolatilityTargetingPositionSize ==
    /\ ps.phase = "args"
    /\ ps.fn = "volatility_targeting_position_size"
    /\ PsReturned(volatility_targeting_position_size(ps.args.returns,
                      ps.args.target_volatility, ps.args.lookback, ps.args.max_position))

NextPS ==
    \/ KellyPositionSize
    \/ RiskParityPositionSize
    \/ VolatilityTargetingPositionSize

SpecPS == InitPS /\ [][NextPS]_vars

----------------------------------------------------------------------------
(* Properties of the sizing functions (SpecPS).  The arguments are        *)
(* defined numbers (no NaN, no infinity).                                 *)

PsDone(fn) == ps.phase = "done" /\ ps.fn = fn

PsReturnedValue == ps.result.raised = "none"

(* clip(x, 0, 0.5) of a defined number or an infinity *)
ClipKelly(x) == RMin2(RMax2(x, Zero), Q(1, 2))

C13_KellyTotal ==
    ( /\ PsDone("kelly_position_size")
      /\ RGe(ps.args.win_rate, Zero) /\ RLe(ps.args.win_rate, One)
      /\ RGe(ps.args.avg_win, Zero)
      /\ RGe(ps.args.kelly_fraction, Zero) ) =>
        /\ PsReturnedValue
        /\ RGe(ps.result.value[1], Zero)
        /\ RLe(ps.result.value[1], RMul(Q(1, 2), ps.args.kelly_fraction))

(* What the code guarantees instead: the call raises exactly when         *)
(* win_rate > 0, avg_loss # 0, avg_win = 0 and the operands are Python    *)
(* floats.                                                                *)
C13_KellyRaisesOnZeroWin ==
    PsDone("kelly_position_size") =>
        (ps.result.raised = "ZeroDivisionError" <=>
            /\ RGt(ps.args.win_rate, Zero)
            /\ ps.args.avg_loss # Zero
            /\ ps.args.avg_win = Zero
            /\ ~ps.args.npfloat)

(* the value risk_parity_position_size returns on volatility v and the    *)
(* other arguments of the call made                                       *)
RiskParityAt(v) ==
    risk_parity_position_size(v, ps.args.target_volatility, ps.args.max_position).value[1]

(* the part of C14 that does not compare two volatilities *)
RiskParityValue ==
    /\ PsReturnedValue
    /\ RLe(ps.args.volatility, Zero) => ps.result.value[1] = Zero
    /\ RGt(ps.args.volatility, Zero) =>
           ps.result.value[1] =
               RMin2(RDiv(ps.args.target_volatility, ps.args.volatility),
                     ps.args.max_position)
    /\ RGe(ps.result.value[1], Zero)
    /\ RLe(ps.result.value[1], ps.args.max_position)

(* C14 as stated: 0 when volatility <= 0, else                            *)
(* min(target_volatility / volatility, max_position); the result lies in  *)
(* [0, max_position] and no larger volatility gives a larger result.      *)
C14_RiskParityNonIncreasing ==
    PsDone("risk_parity_position_size") =>
        /\ RiskParityValue
        /\ \A v \in PsVolatilities :
               RGe(v, ps.args.volatility) => RLe(RiskParityAt(v), ps.result.value[1])

(* C14, amended: the same, with the comparison of two volatilities        *)
(* restricted to volatility > 0.                                          *)
C14_RiskParityNonIncreasingAboveZero ==
    PsDone("risk_parity_position_size") =>
        /\ RiskParityValue
        /\ \A v \in PsVolatilities :
               (RGt(ps.args.volatility, Zero) /\ RGe(v, ps.args.volatility)) =>
                   RLe(RiskParityAt(v), ps.result.value[1])

(* a call that is capped (0.15 / 0.1 = 1.5 > 0.5) while a larger          *)
(* volatility gives a strictly smaller result                             *)
C14_Witness ==
    /\ PsDone("risk_parity_position_size")
    /\ ps.args.volatility = Q(1, 10)
    /\ ps.args.target_volatility = Q(3, 20)
    /\ ps.args.max_position = Q(1, 2)
    /\ ps.result.value[1] = Q(1, 2)
    /\ RLt(RiskParityAt(One), ps.result.value[1])

(* the variance behind the realized volatility of the call made *)
PsRealizedVar == RealizedVol(ps.args.returns, ps.args.lookback)[2]

(* C15: volatility_targeting_position_size returns 0 when it is given     *)
(* fewer than lookback returns or when the realized volatility is not     *)
(* strictly positive (zero or undefined), and a defined number otherwise. *)
C15_VolTargetingDefined ==
    PsDone("volatility_targeting_position_size") =>
        /\ PsReturnedValue
        /\ (Len(ps.args.returns) < ps.args.lookback \/ ~RGt(PsRealizedVar, Zero)) =>
               ps.result.value = <<"q", Zero>>
        /\ ps.result.value # <<"q", NaN>>

(* What the code does instead: NaN is returned exactly when there are     *)
(* lookback returns and their standard deviation is undefined; 0 is       *)
(* returned on fewer returns and on a standard deviation of 0.            *)
C15_VolTargetingNaN ==
    PsDone("volatility_targeting_position_size") =>
        /\ PsReturnedValue
        /\ ps.result.value = <<"q", NaN>> <=>
               (Len(ps.args.returns) >= ps.args.lookback /\ IsNaN(PsRealizedVar))
        /\ (Len(ps.args.returns) < ps.args.lookback \/ PsRealizedVar = Zero) =>
               ps.result.value = <<"q", Zero>>

(* a call on one return with lookback 1, which gives NaN *)
C15_Witness ==
    /\ PsDone("volatility_targeting_position_size")
    /\ Len(ps.args.returns) = 1
    /\ ps.args.lookback = 1
    /\ ps.result.value = <<"q", NaN>>

----------------------------------------------------------------------------
(* The trade statistics driven by a caller (examples_enhanced_agent.py):  *)
(* a table with a signal in {0, 1} is backtested, and the statistics are  *)
(* computed from the equity curve returned and the signal column.  Bar t  *)
(* of the model is the bar of index t - 1 of the source.  The scenario    *)
(* table has 13 bars, with entries at indexes 1 and 8 and exits at        *)
(* indexes 5 and 12; its price moves on the bar of each entry, on the bar *)
(* after it, on the bar of each exit and on the bar after the first exit, *)
(* and it is backtested without fees.                                     *)

MaxTsBars == 5

TsSignalValues == {Zero, One}
TsRetValues == {Q(-1, 2), Q(1, 2)}
TsMaxPositions == {Q(1, 2), One, Q(2, 1)}

ScenarioSignal ==
    << Zero, One, One, One, One, Zero, Zero, Zero, One, One, One, One, Zero >>

ScenarioTables ==
    { [ signal |-> ScenarioSignal,
        ret |-> [t \in 1..Len(ScenarioSignal) |->
                    IF t \in {2, 3, 6, 7} THEN a
                    ELSE IF t \in {9, 10, 13} THEN b
                    ELSE Zero] ] :
        a \in TsRetValues, b \in TsRetValues }

TsTables ==
    UNION { [signal : [1..n -> TsSignalValues], ret : [1..n -> TsRetValues]] :
              n \in 0..MaxTsBars }

TsBacktestConfigs ==
    [max_position : TsMaxPositions, fee_rate : FeeRates, initial_cash : InitialCashValues]

InitTS ==
    /\ ag = AgIdle
    /\ dl = DlIdle
    /\ sg = SgIdle
    /\ bt = BtIdle
    /\ tb = TbIdle
    /\ ms = MsIdle
    /\ ps \in { [phase |-> "table", df |-> d, cfg |-> c] :
                 d \in TsTables, c \in TsBacktestConfigs }
          \cup { [phase |-> "table", df |-> d, cfg |-> c] :
                   d \in ScenarioTables,
                   c \in {k \in TsBacktestConfigs : k.fee_rate = Zero} }

(* result = agent.run(): the backtest of the table *)
BacktestForStatistics ==
    /\ ps.phase = "table"
    /\ ps' = [ phase |-> "equity", df |-> ps.df, cfg |-> ps.cfg,
               backtest |-> run_backtest(ps.df, ps.cfg) ]
    /\ UNCHANGED <<sg, bt, tb, ms, ag, dl>>

(* trade_stats = calculate_trade_statistics(equity_curve, signals) *)
CalculateTradeStatistics ==
    /\ ps.phase = "equity"
    /\ ps.backtest.raised = "none"
    /\ ps' = [ phase |-> "stats", df |-> ps.df, cfg |-> ps.cfg, backtest |-> ps.backtest,
               call |-> calculate_trade_statistics(ps.backtest.data.equity,
                                                   ps.backtest.data.signal) ]
    /\ UNCHANGED <<sg, bt, tb, ms, ag, dl>>

NextTS ==
    \/ BacktestForStatistics
    \/ CalculateTradeStatistics

SpecTS == InitTS /\ [][NextTS]_vars

----------------------------------------------------------------------------
(* Properties of the trade statistics (SpecTS) *)

TsDone == ps.phase = "stats"

TsSignal == ps.df.signal

TsTrades == ps.call.trades

TsStats == ps.call.stats

(* the bars where the signal goes from 0 to 1, and from 1 to 0 *)
SignalEntries ==
    {t \in 2..Len(TsSignal) : TsSignal[t - 1] = Zero /\ TsSignal[t] = One}

SignalExits ==
    {t \in 2..Len(TsSignal) : TsSignal[t - 1] = One /\ TsSignal[t] = Zero}

(* the entries that have a later exit *)
PairedEntries == {e \in SignalEntries : \E x \in SignalExits : x > e}

(* the product of 1 + net_ret over the bars lo..hi *)
RECURSIVE NetGrowth(_, _, _)
NetGrowth(net_ret, lo, hi) ==
    IF lo > hi THEN One ELSE RMul(NetGrowth(net_ret, lo, hi - 1), RAdd(One, net_ret[hi]))

(* C22: the trades are the entries (signal 0 to 1) that have a strictly   *)
(* later exit (signal 1 to 0), each paired with the nearest such exit;    *)
(* num_trades is their number; the return of a trade is the product of    *)
(* 1 + net return over the bars entry..exit, minus 1.  The scenario with  *)
(* entries at indexes 1 and 8 and exits at indexes 5 and 12 has 2 trades. *)
C22_TradesFromTransitions ==
    TsDone =>
        /\ ps.call.entry_points = SignalEntries
        /\ ps.call.exit_points = SignalExits
        /\ {TsTrades[i].entry : i \in 1..Len(TsTrades)} = PairedEntries
        /\ Len(TsTrades) = Cardinality(PairedEntries)
        /\ TsStats.num_trades = Cardinality(PairedEntries)
        /\ \A i \in 1..Len(TsTrades) :
               LET e == TsTrades[i].entry
                   x == TsTrades[i].exit
               IN  /\ x \in SignalExits
                   /\ x > e
                   /\ \A y \in SignalExits : y > e => x <= y
                   /\ (\A t \in e..x : ps.backtest.data.equity[t - 1] # Zero) =>
                          TsTrades[i].trade_return =
                              RSub(NetGrowth(ps.backtest.data.net_ret, e, x), One)
        /\ TsSignal = ScenarioSignal =>
               /\ TsStats.num_trades = 2
               /\ <<TsTrades[1].entry, TsTrades[1].exit>> = <<2, 6>>
               /\ <<TsTrades[2].entry, TsTrades[2].exit>> = <<9, 13>>

(* the scenario, with a first trade that wins and a second that loses *)
C22_Witness ==
    /\ TsDone
    /\ TsSignal = ScenarioSignal
    /\ TsStats.num_trades = 2
    /\ RGt(TsTrades[1].trade_return, Zero)
    /\ RLt(TsTrades[2].trade_return, Zero)

(* a table whose last entry has no exit after it, and is dropped *)
C22_WitnessDropped ==
    /\ TsDone
    /\ TsStats.num_trades = 1
    /\ Cardinality(SignalEntries) = 2
    /\ ps.cfg.fee_rate # Zero

TsReturns == [i \in 1..Len(TsTrades) |-> TsTrades[i].trade_return]

TsWinners == {i \in 1..Len(TsTrades) : RGt(TsReturns[i], Zero)}

TsLosers == {i \in 1..Len(TsTrades) : RLt(TsReturns[i], Zero)}

(* the sum of the returns of the trades of a set *)
RECURSIVE ReturnSum(_)
ReturnSum(trades) ==
    IF trades = {} THEN Zero
    ELSE LET i == CHOOSE j \in trades : TRUE
         IN  RAdd(TsReturns[i], ReturnSum(trades \ {i}))

(* C23: win_rate is the number of trades with a positive return over      *)
(* num_trades, and lies in [0, 1]; avg_win is the mean of the positive    *)
(* returns, 0 if there is none; avg_loss is the absolute value of the     *)
(* mean of the negative returns, 0 if there is none, and is >= 0; a trade *)
(* with return 0 is counted in num_trades and is neither; without a       *)
(* completed trade the four values are 0.                                 *)
C23_Aggregates ==
    TsDone =>
        /\ TsStats.num_trades = Len(TsTrades)
        /\ Len(TsTrades) > 0 =>
               /\ TsStats.win_rate = Q(Cardinality(TsWinners), Len(TsTrades))
               /\ TsStats.avg_win =
                      IF TsWinners = {} THEN Zero
                      ELSE RDiv(ReturnSum(TsWinners), Q(Cardinality(TsWinners), 1))
               /\ TsStats.avg_loss =
                      IF TsLosers = {} THEN Zero
                      ELSE RAbs(RDiv(ReturnSum(TsLosers), Q(Cardinality(TsLosers), 1)))
        /\ RGe(TsStats.win_rate, Zero)
        /\ RLe(TsStats.win_rate, One)
        /\ RGe(TsStats.avg_win, Zero)
        /\ RGe(TsStats.avg_loss, Zero)
        /\ PairedEntries = {} => TsStats = NoTradeStatistics

(* two trades, one that loses and one with a return of exactly 0, which   *)
(* is counted and is neither a win nor a loss                             *)
C23_Witness ==
    /\ TsDone
    /\ TsStats.num_trades = 2
    /\ \E i \in 1..2 : TsReturns[i] = Zero
    /\ Cardinality(TsLosers) = 1
    /\ TsStats.win_rate = Zero
    /\ RGt(TsStats.avg_loss, Zero)

(* an entry without a later exit: no trade is completed *)
C23_WitnessNoTrade ==
    /\ TsDone
    /\ SignalEntries # {}
    /\ PairedEntries = {}
    /\ TsStats = NoTradeStatistics

(* the first bars of the maximal runs of 1s that are followed by a 0 *)
ClosedRuns ==
    {t \in 1..Len(TsSignal) :
        /\ TsSignal[t] = One
        /\ t = 1 \/ TsSignal[t - 1] = Zero
        /\ \E x \in (t + 1)..Len(TsSignal) : TsSignal[x] = Zero}

(* C28: num_trades is the number of maximal runs of consecutive 1s that   *)
(* are followed by a 0, a run that begins on the first bar included.      *)
C28_RunsCounted == TsDone => TsStats.num_trades = Cardinality(ClosedRuns)

(* What the code does: a run that begins on the first bar has no entry,   *)
(* since the diff of the first bar is NaN, and is not counted.            *)
C28_RunsAfterFirstBarCounted ==
    TsDone => TsStats.num_trades = Cardinality(ClosedRuns \ {1})

(* the signal is 0 on the first and on the last bar *)
FlatAtBothEnds ==
    /\ Len(TsSignal) >= 1
    /\ TsSignal[1] = Zero
    /\ TsSignal[Len(TsSignal)] = Zero

(* the product of 1 + trade return over the first k trades *)
RECURSIVE TradeGrowth(_)
TradeGrowth(k) ==
    IF k = 0 THEN One ELSE RMul(TradeGrowth(k - 1), RAdd(One, TsReturns[k]))

InTradeWindow(t) == \E i \in 1..Len(TsTrades) : t \in TsTrades[i].entry..TsTrades[i].exit

(* C27: for a signal in {0, 1} that is 0 on the first and on the last     *)
(* bar, backtested and then analysed with the equity curve returned: the  *)
(* trade windows [entry, exit] are pairwise disjoint, net_ret is 0 on     *)
(* every bar outside them, and the product of 1 + trade return over all   *)
(* trades is equity[last] / initial_cash.                                 *)
C27_TradesCompoundToEquity ==
    (TsDone /\ FlatAtBothEnds) =>
        /\ \A i, j \in 1..Len(TsTrades) :
               i < j => TsTrades[i].exit < TsTrades[j].entry
        /\ \A t \in 1..Len(TsSignal) :
               ~InTradeWindow(t) => ps.backtest.data.net_ret[t] = Zero
        /\ TradeGrowth(Len(TsTrades)) =
               RDiv(ps.backtest.data.equity[Len(TsSignal)], ps.cfg.initial_cash)

(* two trades with fees, a bar between them, and an equity that has moved *)
C27_Witness ==
    /\ TsDone
    /\ FlatAtBothEnds
    /\ Len(TsTrades) = 2
    /\ ps.cfg.fee_rate # Zero
    /\ TsReturns[1] # Zero
    /\ TsReturns[2] # Zero
    /\ ps.backtest.data.equity[Len(TsSignal)] # ps.cfg.initial_cash

----------------------------------------------------------------------------
(* The classifier driven by a caller: a table of bars is chosen and       *)
(* identify_market_state is called on it; the recommendation is looked up *)
(* for the state returned.  Another caller has a regime name alone and    *)
(* looks the recommendation up for a state built from it (llm_agent.py).  *)
(* The call of identify_market_state runs in steps, in the order of the   *)
(* source; locals holds the Series computed so far.                       *)
(*                                                                        *)
(* The tables alternate between two bars, so that the indicators have     *)
(* exact values: odd bars have High 500, Low 40, Close 100; even bars     *)
(* have High 500 + hs, Low 40 + ls, Close 100 + cs.  The closes of the    *)
(* first PrefixBars bars are scaled by f, which sets the long average     *)
(* apart from the short one.  From 28 bars on ADX = 100 |hs - ls| /       *)
(* (hs + ls), and it is undefined for hs = ls = 0.                        *)

MaxMsBars == 61
PrefixBars == 20

HighSwings == {0, 9, 13}
LowSwings == {0, 7}
CloseSwings == {0, 100}
PrefixScales == {Q(1, 2), One, Q(2, 1)}
Lookbacks == {1, 20}

Bars(n, hs, ls, cs, f) ==
    [ High |-> [t \in 1..n |-> Q(500 + (IF t % 2 = 0 THEN hs ELSE 0), 1)],
      Low |-> [t \in 1..n |-> Q(40 + (IF t % 2 = 0 THEN ls ELSE 0), 1)],
      Close |-> [t \in 1..n |->
                    RMul(Q(100 + (IF t % 2 = 0 THEN cs ELSE 0), 1),
                         IF t <= PrefixBars THEN f ELSE One)] ]

BarTables ==
    { Bars(n, hs, ls, cs, f) :
        n \in 0..MaxMsBars, hs \in HighSwings, ls \in LowSwings,
        cs \in CloseSwings, f \in PrefixScales }

Regimes == {"TRENDING_UP", "TRENDING_DOWN", "RANGING", "HIGH_VOLATILITY", "LOW_VOLATILITY"}

(* regime_map.get(market_state): the regime of a name, None for another  *)
(* string                                                                 *)
RegimeMap(market_state) ==
    CASE market_state = "trending_up" -> <<"TRENDING_UP">>
      [] market_state = "trending_down" -> <<"TRENDING_DOWN">>
      [] market_state = "ranging" -> <<"RANGING">>
      [] market_state = "high_volatility" -> <<"HIGH_VOLATILITY">>
      [] market_state = "low_volatility" -> <<"LOW_VOLATILITY">>
      [] OTHER -> <<>>

MarketStateNames ==
    {"trending_up", "trending_down", "ranging", "high_volatility", "low_volatility",
     "sideways"}

(* mock_state = MarketState(regime=regime, volatility=0.2,                *)
(* trend_strength=0.5, adx=20.0, atr=2.0, bollinger_width=0.1, ...); the  *)
(* width is held as its square, as calculate_bollinger_bands holds it     *)
MockState(regime) ==
    [ regime |-> regime,
      volatility |-> <<"sqrt", Q(1, 25)>>,
      trend_strength |-> Q(1, 2),
      adx |-> Q(20, 1),
      atr |-> Q(2, 1),
      bollinger_width |-> Q(1, 100),
      is_bullish |-> TRUE,
      is_bearish |-> FALSE ]

InitMS ==
    /\ ag = AgIdle
    /\ dl = DlIdle
    /\ sg = SgIdle
    /\ bt = BtIdle
    /\ tb = TbIdle
    /\ ps = PsIdle
    /\ ms \in { [phase |-> "bars", df |-> d] : d \in BarTables } \cup {[phase |-> "name"]}

MsStep(phase, locals) ==
    /\ ms' = [phase |-> phase, df |-> ms.df, lookback |-> ms.lookback, locals |-> locals]
    /\ UNCHANGED <<sg, bt, tb, ps, ag, dl>>

(* identify_market_state(df, lookback) is entered:                        *)
(* atr = calculate_atr(df, window=14)                                     *)
IdentifyMarketState(lookback) ==
    /\ ms.phase = "bars"
    /\ ms' = [ phase |-> "atr", df |-> ms.df, lookback |-> lookback,
               locals |-> [atr |-> calculate_atr(ms.df, AtrWindow)] ]
    /\ UNCHANGED <<sg, bt, tb, ps, ag, dl>>

(* calculate_adx(df, window=14) is entered: plus_dm, minus_dm and tr *)
AdxMovement ==
    /\ ms.phase = "atr"
    /\ MsStep("dm", [ atr |-> ms.locals.atr, plus_dm |-> PlusDM(ms.df),
                      minus_dm |-> MinusDM(ms.df), tr |-> calculate_atr(ms.df, 1) ])

(* plus_di and minus_di *)
AdxDirectionalIndex ==
    /\ ms.phase = "dm"
    /\ MsStep("di", [ atr |-> ms.locals.atr,
                      plus_di |-> DirectionalIndex(ms.locals.plus_dm, ms.locals.tr, AdxWindow),
                      minus_di |-> DirectionalIndex(ms.locals.minus_dm, ms.locals.tr, AdxWindow) ])

(* dx and adx; calculate_adx returns *)
AdxAverage ==
    /\ ms.phase = "di"
    /\ MsStep("adx", [ atr |-> ms.locals.atr,
                       adx |-> RollingMean(DX(ms.locals.plus_di, ms.locals.minus_di),
                                           AdxWindow) ])

(* the rest of identify_market_state, which returns the MarketState *)
ClassifyRegime ==
    /\ ms.phase = "adx"
    /\ ms' = [ phase |-> "state", df |-> ms.df, lookback |-> ms.lookback,
               call |-> MarketStateFrom(ms.df, ms.lookback, ms.locals.atr, ms.locals.adx) ]
    /\ UNCHANGED <<sg, bt, tb, ps, ag, dl>>

(* recommended = get_optimal_strategy_for_regime(market_state) *)
GetOptimalStrategyForRegime ==
    /\ ms.phase = "state"
    /\ ms.call.raised = "none"
    /\ ms' = [ phase |-> "advised", df |-> ms.df, lookback |-> ms.lookback,
               call |-> ms.call, mock |-> FALSE,
               recommended |-> get_optimal_strategy_for_regime(ms.call.state[1]) ]
    /\ UNCHANGED <<sg, bt, tb, ps, ag, dl>>

(* _get_strategy_recommendation(market_state): the lookup on a state      *)
(* built from the regime with fixed other fields, and an error for a      *)
(* name that is not in regime_map                                         *)
GetStrategyRecommendation(market_state) ==
    /\ ms.phase = "name"
    /\ LET regime == RegimeMap(market_state) IN
         ms' = IF regime # <<>>
               THEN [ phase |-> "advised", df |-> Bars(0, 0, 0, 0, One), lookback |-> 0,
                      call |-> [ raised |-> "none", current |-> <<>>,
                                 state |-> <<MockState(regime[1])>> ],
                      mock |-> TRUE,
                      recommended |->
                          get_optimal_strategy_for_regime(MockState(regime[1])) ]
               ELSE [ phase |-> "unknown", error |-> market_state ]
    /\ UNCHANGED <<sg, bt, tb, ps, ag, dl>>

NextMS ==
    \/ \E lookback \in Lookbacks : IdentifyMarketState(lookback)
    \/ AdxMovement
    \/ AdxDirectionalIndex
    \/ AdxAverage
    \/ ClassifyRegime
    \/ GetOptimalStrategyForRegime
    \/ \E market_state \in MarketStateNames : GetStrategyRecommendation(market_state)

SpecMS == InitMS /\ [][NextMS]_vars

----------------------------------------------------------------------------
(* Properties of the classifier (SpecMS).  The bars are defined numbers   *)
(* with positive prices.                                                  *)

(* identify_market_state has returned a MarketState *)
MsReturned == ms.phase \in {"state", "advised"} /\ ms.call.raised = "none"

(* ... from a call on a table, not built from a regime name *)
MsIdentified == MsReturned /\ (ms.phase = "advised" => ~ms.mock)

MsState == ms.call.state[1]

MsCurrent == ms.call.current[1]

(* C17: the regime is TRENDING_UP, TRENDING_DOWN or RANGING when          *)
(* trend_strength > 0.5 (bullish, bearish and not bullish, neither), and  *)
(* HIGH_VOLATILITY or LOW_VOLATILITY when trend_strength <= 0.5           *)
(* (volatility > 0.3 or not).  With ADX = 30, MA20 > MA60 and close >     *)
(* MA20 the regime is TRENDING_UP and the recommendation is momentum.     *)
C17_RegimeTable ==
    MsIdentified =>
        /\ MsState.regime =
               IF RGt(MsState.trend_strength, Q(1, 2))
               THEN (IF MsState.is_bullish THEN "TRENDING_UP"
                     ELSE IF MsState.is_bearish THEN "TRENDING_DOWN"
                     ELSE "RANGING")
               ELSE (IF RGt(MsState.volatility[2], Q(9, 100)) THEN "HIGH_VOLATILITY"
                     ELSE "LOW_VOLATILITY")
        /\ ( /\ MsCurrent.adx = Q(30, 1)
             /\ RGt(MsCurrent.ma_short, MsCurrent.ma_long)
             /\ RGt(MsCurrent.price, MsCurrent.ma_short) ) =>
               /\ MsState.regime = "TRENDING_UP"
               /\ ms.phase = "advised" => ms.recommended = "momentum"

(* the scenario of the spec: ADX = 30, MA20 > MA60, close > MA20 *)
C17_Witness ==
    /\ MsIdentified
    /\ ms.phase = "advised"
    /\ MsCurrent.adx = Q(30, 1)
    /\ RGt(MsCurrent.ma_short, MsCurrent.ma_long)
    /\ RGt(MsCurrent.price, MsCurrent.ma_short)
    /\ MsState.regime = "TRENDING_UP"
    /\ ms.recommended = "momentum"

(* every regime is returned for some table *)
C17_EveryRegimeReached(regime) == MsIdentified /\ MsState.regime = regime

(* a number, neither NaN nor an infinity *)
Defined(x) == x[2] # 0

(* C18: trend_strength = min(ADX / 25, 1), and 0 for an undefined ADX; it *)
(* lies in [0, 1]; the adx, atr and bollinger_width fields are defined    *)
(* numbers, 0 where the indicator is undefined.                           *)
C18_TrendStrengthRange ==
    MsIdentified =>
        /\ MsState.trend_strength =
               IF IsNaN(MsCurrent.adx) THEN Zero
               ELSE RMin2(RDiv(MsCurrent.adx, Q(25, 1)), One)
        /\ RGe(MsState.trend_strength, Zero)
        /\ RLe(MsState.trend_strength, One)
        /\ Defined(MsState.adx)
        /\ Defined(MsState.atr)
        /\ Defined(MsState.bollinger_width)
        /\ IsNaN(MsCurrent.adx) => MsState.adx = Zero
        /\ IsNaN(MsCurrent.atr) => MsState.atr = Zero
        /\ IsNaN(MsCurrent.bb_width) => MsState.bollinger_width = Zero

(* a table long enough for every window on which ADX is undefined all the *)
(* same (the highs and the lows do not move, so that DX is 0 / 0)         *)
C18_Witness ==
    /\ MsIdentified
    /\ Len(ms.df.Close) >= 60
    /\ IsNaN(MsCurrent.adx)
    /\ ~IsNaN(MsCurrent.atr)
    /\ MsState.trend_strength = Zero
    /\ MsState.adx = Zero

(* a table on which ADX / 25 is above 1 *)
C18_WitnessCapped ==
    /\ MsIdentified
    /\ MsCurrent.adx = Q(100, 1)
    /\ MsState.trend_strength = One

(* the lookup as the spec states it *)
RecommendedFor(regime) ==
    CASE regime = "TRENDING_UP" -> "momentum"
      [] regime = "TRENDING_DOWN" -> "momentum"
      [] regime = "RANGING" -> "mean_reversion"
      [] regime = "HIGH_VOLATILITY" -> "mean_reversion"
      [] regime = "LOW_VOLATILITY" -> "momentum"

(* C19: the recommendation is the one the table gives for the regime, it  *)
(* is the same for a state with the same regime and other fields, and it  *)
(* is a name build_strategy accepts.                                      *)
C19_RecommendationLookup ==
    ms.phase = "advised" =>
        /\ ms.recommended = RecommendedFor(MsState.regime)
        /\ ms.recommended = get_optimal_strategy_for_regime(MockState(MsState.regime))
        /\ ms.recommended =
               get_optimal_strategy_for_regime(
                   [MsState EXCEPT !.is_bullish = ~@, !.trend_strength = RSub(One, @)])
        /\ ms.recommended \in KnownStrategies
        /\ StrategyDispatch(ms.recommended) = ms.recommended
        /\ \A regime \in Regimes :
               get_optimal_strategy_for_regime(MockState(regime)) = RecommendedFor(regime)

(* a state returned for a table, with the regime that has no branch of    *)
(* its own in the lookup, and other fields than the state built from the  *)
(* regime name                                                            *)
C19_Witness ==
    /\ ms.phase = "advised"
    /\ ~ms.mock
    /\ MsState.regime = "LOW_VOLATILITY"
    /\ MsState # MockState("LOW_VOLATILITY")
    /\ ms.recommended = "momentum"

(* What identify_market_state does on fewer bars than its longest window  *)
(* (C20): it returns a MarketState on every table with at least one bar,  *)
(* and raises IndexError, by the first .iloc[-1], on a table without.     *)
C20_ShortTableClassified ==
    ms.phase = "state" =>
        (ms.call.raised = "none" <=> Len(ms.df.Close) >= 1)

(* C29: is_bullish and is_bearish are never both true; when MA20 or MA60  *)
(* is undefined (fewer than 60 bars) both are false, and the regime is    *)
(* then neither TRENDING_UP nor TRENDING_DOWN; TRENDING_UP implies        *)
(* is_bullish and TRENDING_DOWN implies is_bearish.                       *)
C29_BullishBearishExclusive ==
    MsIdentified =>
        /\ ~(MsState.is_bullish /\ MsState.is_bearish)
        /\ (Len(ms.df.Close) < MaLongWindow) =>
               IsNaN(MsCurrent.ma_short) \/ IsNaN(MsCurrent.ma_long)
        /\ (IsNaN(MsCurrent.ma_short) \/ IsNaN(MsCurrent.ma_long)) =>
               /\ ~MsState.is_bullish
               /\ ~MsState.is_bearish
               /\ MsState.regime \notin {"TRENDING_UP", "TRENDING_DOWN"}
        /\ MsState.regime = "TRENDING_UP" => MsState.is_bullish
        /\ MsState.regime = "TRENDING_DOWN" => MsState.is_bearish
        /\ MsState.is_bullish <=>
               (RGt(MsCurrent.ma_short, MsCurrent.ma_long)
                    /\ RGt(MsCurrent.price, MsCurrent.ma_short))
        /\ MsState.is_bearish <=>
               (RLt(MsCurrent.ma_short, MsCurrent.ma_long)
                    /\ RLt(MsCurrent.price, MsCurrent.ma_short))

(* a strong trend (ADX above 12.5) on a table of fewer than 60 bars, on   *)
(* which MA20 has a value, the close is above it, and MA60 has none       *)
C29_Witness ==
    /\ MsIdentified
    /\ Len(ms.df.Close) < MaLongWindow
    /\ RGt(MsState.trend_strength, Q(1, 2))
    /\ ~IsNaN(MsCurrent.ma_short)
    /\ RGt(MsCurrent.price, MsCurrent.ma_short)
    /\ IsNaN(MsCurrent.ma_long)
    /\ MsState.regime = "RANGING"

(* a table of 60 bars or more in a downward trend *)
C29_WitnessDown ==
    /\ MsIdentified
    /\ MsState.regime = "TRENDING_DOWN"
    /\ MsState.is_bearish

----------------------------------------------------------------------------
(* agent.py: TradingAgent.  self is the record of the three attributes    *)
(* data, strategy_result and backtest_result, each None (<<>>) or a       *)
(* value; the configuration is set at construction.  A method gives the   *)
(* attributes after the call, what it raised and the methods that were    *)
(* entered, in their order (steps).                                       *)

(* __init__ *)
NewAgent == [data |-> <<>>, strategy_result |-> <<>>, backtest_result |-> <<>>]

Returned(self, steps) == [self |-> self, raised |-> "none", steps |-> steps]

Raised(self, exception, steps) == [self |-> self, raised |-> exception, steps |-> steps]

(* perceive(): self.data = download_ohlcv(self.config.data); the download *)
(* returns a table (<<close>>) or raises ValueError (<<>>)                *)
perceive(self, cfg, downloaded) ==
    IF downloaded = <<>> THEN Raised(self, "ValueError", <<"perceive">>)
    ELSE Returned([self EXCEPT !.data = <<[Close |-> downloaded[1]]>>], <<"perceive">>)

(* if self.data is None: raise ValueError(...) *)
DecideGuard(self) == self.data = <<>>

(* decide(): self.strategy_result = build_strategy(self.data, ...).       *)
(* build_strategy works on a copy of the table (strategy.py 19), so       *)
(* self.data is left as perceive stored it.                               *)
decide(self, cfg) ==
    IF DecideGuard(self) THEN Raised(self, "ValueError", <<"decide">>)
    ELSE IF build_strategy(self.data[1].Close, cfg.strategy).raised # "none"
         THEN Raised(self, build_strategy(self.data[1].Close, cfg.strategy).raised,
                     <<"decide">>)
         ELSE Returned([self EXCEPT !.strategy_result =
                            <<build_strategy(self.data[1].Close, cfg.strategy)>>],
                       <<"decide">>)

(* if self.strategy_result is None: raise ValueError(...) *)
ActGuard(self) == self.strategy_result = <<>>

(* act(): self.backtest_result = run_backtest(self.strategy_result.data,  *)
(* signal_col=self.strategy_result.signal_col, cfg=self.config.backtest)  *)
act(self, cfg) ==
    IF ActGuard(self) THEN Raised(self, "ValueError", <<"act">>)
    ELSE LET sr == self.strategy_result[1]
             result == run_backtest([signal |-> sr.signal[1], ret |-> sr.data[1].ret],
                                    cfg.backtest)
         IN  IF result.raised # "none" THEN Raised(self, result.raised, <<"act">>)
             ELSE Returned([self EXCEPT !.backtest_result = <<result>>], <<"act">>)

(* if self.backtest_result is None: raise ValueError(...) *)
EvaluateGuard(self) == self.backtest_result = <<>>

(* evaluate(): return self.backtest_result.stats *)
evaluate(self, cfg) ==
    IF EvaluateGuard(self) THEN Raised(self, "ValueError", <<"evaluate">>)
    ELSE [ self |-> self, raised |-> "none", steps |-> <<"evaluate">>,
           stats |-> self.backtest_result[1].stats ]

(* a faulty variant: run() goes on after a step that raised *)
ThenAlways(first, second) ==
    [second EXCEPT !.steps = first.steps \o @,
                   !.raised = IF first.raised # "none" THEN first.raised ELSE @]

(* one statement after another: an exception ends the method *)
Then(first, second) ==
    IF first.raised # "none" THEN first
    ELSE [second EXCEPT !.steps = first.steps \o @]

(* run(): self.perceive(); self.decide(); self.act(); self.evaluate().    *)
(* The outcome after each statement is held as the one element of a set,  *)
(* which gives the next statement the value and not its computation.      *)
RunPerceived(self, cfg, downloaded) == { perceive(self, cfg, downloaded) }

RunDecided(self, cfg, downloaded) ==
    { Then(r, decide(r.self, cfg)) : r \in RunPerceived(self, cfg, downloaded) }

RunActed(self, cfg, downloaded) ==
    { Then(r, act(r.self, cfg)) : r \in RunDecided(self, cfg, downloaded) }

RunEvaluated(self, cfg, downloaded) ==
    { Then(r, evaluate(r.self, cfg)) : r \in RunActed(self, cfg, downloaded) }

run(self, cfg, downloaded) == CHOOSE r \in RunEvaluated(self, cfg, downloaded) : TRUE

----------------------------------------------------------------------------
(* A TradingAgent driven by a caller, who calls its methods in any order. *)
(* What perceive downloads is chosen at each call (the source and the     *)
(* cache are outside the agent).                                          *)

MaxAgCalls == 4

AgStrategyConfig(name) ==
    [ name |-> name, mr_window |-> 2, mr_threshold |-> Q(1, 2),
      mom_short_window |-> 1, mom_long_window |-> 2 ]

AgBacktestConfig ==
    [max_position |-> One, fee_rate |-> Q(1, 10), initial_cash |-> Q(100000, 1)]

AgConfigs ==
    { [strategy |-> AgStrategyConfig(name), backtest |-> AgBacktestConfig] :
        name \in {"mean_reversion", "breakout"} }

(* what download_ohlcv gives: ValueError, a table without bars (read from *)
(* a cache file that holds none), or a table of closes                    *)
Downloads ==
    { <<>>,
      << <<>> >>,
      << <<Q(2, 1), Q(2, 1), Q(1, 1), Q(2, 1)>> >>,
      << <<Q(2, 1), Q(2, 1), Q(1, 1), Q(1, 1)>> >> }

InitAG ==
    /\ sg = SgIdle
    /\ bt = BtIdle
    /\ tb = TbIdle
    /\ ps = PsIdle
    /\ ms = MsIdle
    /\ dl = DlIdle
    /\ ag \in { [ phase |-> "agent", cfg |-> c, self |-> NewAgent, calls |-> 0,
                   method |-> "__init__", before |-> NewAgent,
                   last |-> Returned(NewAgent, <<>>) ] : c \in AgConfigs }

(* the caller calls a method and gets its result or its exception *)
AgCall(method, result) ==
    [ag EXCEPT !.self = result.self, !.calls = @ + 1, !.method = method,
               !.before = ag.self, !.last = result]

Perceive(downloaded) ==
    /\ ag.phase = "agent"
    /\ ag.calls < MaxAgCalls
    /\ ag' = AgCall("perceive", perceive(ag.self, ag.cfg, downloaded))
    /\ UNCHANGED <<sg, bt, tb, ps, ms, dl>>

Decide ==
    /\ ag.phase = "agent"
    /\ ag.calls < MaxAgCalls
    /\ ag' = AgCall("decide", decide(ag.self, ag.cfg))
    /\ UNCHANGED <<sg, bt, tb, ps, ms, dl>>

Act ==
    /\ ag.phase = "agent"
    /\ ag.calls < MaxAgCalls
    /\ ag' = AgCall("act", act(ag.self, ag.cfg))
    /\ UNCHANGED <<sg, bt, tb, ps, ms, dl>>

Evaluate ==
    /\ ag.phase = "agent"
    /\ ag.calls < MaxAgCalls
    /\ ag' = AgCall("evaluate", evaluate(ag.self, ag.cfg))
    /\ UNCHANGED <<sg, bt, tb, ps, ms, dl>>

Run(downloaded) ==
    /\ ag.phase = "agent"
    /\ ag.calls < MaxAgCalls
    /\ ag' = AgCall("run", run(ag.self, ag.cfg, downloaded))
    /\ UNCHANGED <<sg, bt, tb, ps, ms, dl>>

NextAG ==
    \/ \E downloaded \in Downloads : Perceive(downloaded)
    \/ Decide
    \/ Act
    \/ Evaluate
    \/ \E downloaded \in Downloads : Run(downloaded)

SpecAG == InitAG /\ [][NextAG]_vars

----------------------------------------------------------------------------
(* Properties of the agent (SpecAG) *)

AgSteps == <<"perceive", "decide", "act", "evaluate">>

AgCalled(method) == ag.phase = "agent" /\ ag.method = method

(* C25: decide() before data is loaded, act() before a strategy result    *)
(* exists and evaluate() before a backtest result exists raise ValueError *)
(* and leave the three attributes unchanged; run() enters perceive,       *)
(* decide, act and evaluate in that order, once each, and a step that     *)
(* raises is the last one entered.                                        *)
C25_StepsInOrder ==
    /\ (AgCalled("decide") /\ ag.before.data = <<>>) =>
           ag.last.raised = "ValueError" /\ ag.self = ag.before
    /\ (AgCalled("act") /\ ag.before.strategy_result = <<>>) =>
           ag.last.raised = "ValueError" /\ ag.self = ag.before
    /\ (AgCalled("evaluate") /\ ag.before.backtest_result = <<>>) =>
           ag.last.raised = "ValueError" /\ ag.self = ag.before
    /\ AgCalled("run") =>
           /\ Len(ag.last.steps) \in 1..4
           /\ ag.last.steps = SubSeq(AgSteps, 1, Len(ag.last.steps))
           /\ ag.last.raised = "none" <=> Len(ag.last.steps) = 4
           /\ Len(ag.last.steps) < 3 => ag.self.backtest_result = ag.before.backtest_result
           /\ Len(ag.last.steps) < 2 => ag.self.strategy_result = ag.before.strategy_result

(* run() on an agent configured with an unknown strategy: decide raises,  *)
(* act and evaluate are not entered                                       *)
C25_Witness ==
    /\ AgCalled("run")
    /\ ag.last.raised = "ValueError"
    /\ ag.last.steps = <<"perceive", "decide">>
    /\ ag.self.data # <<>>
    /\ ag.self.backtest_result = <<>>

(* evaluate() on an agent that has decided and not acted *)
C25_WitnessPremature ==
    /\ AgCalled("evaluate")
    /\ ag.before.strategy_result # <<>>
    /\ ag.before.backtest_result = <<>>
    /\ ag.last.raised = "ValueError"

(* a run() that completes *)
C25_WitnessCompleted ==
    /\ AgCalled("run")
    /\ ag.last.raised = "none"
    /\ ag.last.steps = AgSteps
    /\ ag.last.stats = ag.self.backtest_result[1].stats

(* C26: after any sequence of calls, backtest_result set implies          *)
(* strategy_result set implies data set, the stored strategy_result was   *)
(* built from the stored data, and the stats evaluate() returns are those *)
(* of a backtest of the stored strategy_result.                           *)
C26_ResultsConsistent ==
    ag.phase = "agent" =>
        /\ ag.self.backtest_result # <<>> => ag.self.strategy_result # <<>>
        /\ ag.self.strategy_result # <<>> => ag.self.data # <<>>
        /\ ag.self.strategy_result # <<>> =>
               ag.self.strategy_result[1] =
                   build_strategy(ag.self.data[1].Close, ag.cfg.strategy)
        /\ (ag.method = "evaluate" /\ ag.last.raised = "none") =>
               ag.last.stats = act(ag.self, ag.cfg).self.backtest_result[1].stats

(* What the code keeps: the order in which the attributes are set, and    *)
(* evaluate() returning the stats of the stored backtest_result.  No      *)
(* method clears or rebuilds the results of the later steps.              *)
C26_ResultsOrdered ==
    ag.phase = "agent" =>
        /\ ag.self.backtest_result # <<>> => ag.self.strategy_result # <<>>
        /\ ag.self.strategy_result # <<>> => ag.self.data # <<>>
        /\ (ag.method = "evaluate" /\ ag.last.raised = "none") =>
               ag.last.stats = ag.self.backtest_result[1].stats

(* perceive() on an agent that has acted: the stored data is the new      *)
(* table, the stored strategy_result and backtest_result are those of the *)
(* table before it                                                        *)
C26_StaleResults ==
    /\ AgCalled("perceive")
    /\ ag.last.raised = "none"
    /\ ag.self.backtest_result # <<>>
    /\ Len(ag.self.data[1].Close) = 4
    /\ Len(ag.self.strategy_result[1].data[1].Close) = 4
    /\ ag.self.strategy_result[1].data[1].Close # ag.self.data[1].Close

----------------------------------------------------------------------------
(* data.py: download_ohlcv.  A table is its column labels and its index   *)
(* (the dates, as numbers); with MultiIndex columns, columns holds the    *)
(* labels of the first level and level1 those of the second.  The cache   *)
(* is <<>> while it does not exist and <<table>> once written.  What each *)
(* call of yf.download does is given by the caller of the model: it       *)
(* raises, returns None, or returns a table.                              *)

max_retries == 3

expected_cols == <<"Adj Close", "Close", "High", "Low", "Open", "Volume">>

required_cols == <<"Open", "High", "Low", "Close", "Adj Close", "Volume">>

Range(s) == { s[i] : i \in 1..Len(s) }

(* data is not None and not data.empty *)
NonEmpty(data) == data # <<>> /\ data[1].index # <<>> /\ data[1].columns # <<>>

(* a faulty variant: the loop goes on after an attempt returned data *)
BreakNever(data) == FALSE

(* if data is not None and not data.empty: break *)
Break(data) == NonEmpty(data)

(* for attempt in range(max_retries): the attempts made so far are `made`, *)
(* data is the value of the last attempt that returned                    *)
RECURSIVE DownloadLoop(_, _, _)
DownloadLoop(outcomes, made, data) ==
    IF Len(made) = max_retries
    THEN [raised |-> "none", data |-> data, attempts |-> made]
    ELSE IF outcomes[Len(made) + 1].kind = "raise"
         THEN IF Len(made) = max_retries - 1
              THEN [raised |-> "ValueError", data |-> data,
                    attempts |-> Append(made, outcomes[Len(made) + 1])]
              ELSE DownloadLoop(outcomes, Append(made, outcomes[Len(made) + 1]), data)
         ELSE IF Break(outcomes[Len(made) + 1].data)
              THEN [raised |-> "none", data |-> outcomes[Len(made) + 1].data,
                    attempts |-> Append(made, outcomes[Len(made) + 1])]
              ELSE DownloadLoop(outcomes, Append(made, outcomes[Len(made) + 1]),
                                outcomes[Len(made) + 1].data)

(* data.columns.droplevel(0) *)
DropLevel(df) == df.level1

(* the MultiIndex branch: six columns are renamed by position, any other  *)
(* number loses its first level                                           *)
FlattenColumns(df) ==
    IF ~df.multi THEN df.columns
    ELSE IF Len(df.columns) = Len(expected_cols) THEN expected_cols
    ELSE IF Len(DropLevel(df)) = Len(expected_cols) THEN expected_cols
    ELSE DropLevel(df)

(* available_cols = [col for col in required_cols if col in data.columns] *)
available_cols(columns) == SelectSeq(required_cols, LAMBDA col : col \in Range(columns))

(* if len(available_cols) != len(required_cols): raise ValueError(...) *)
ColumnsMissing(columns) == Len(available_cols(columns)) # Len(required_cols)

(* data = data[required_cols]; data = data.sort_index() *)
Selected(df) ==
    [multi |-> FALSE, columns |-> required_cols, level1 |-> <<>>,
     index |-> SortSeq(df.index, LAMBDA a, b : a < b)]

(* the statements after the loop, to data.to_csv(cache_file) and return *)
AfterLoop(cache, loop) ==
    IF loop.raised # "none"
    THEN [raised |-> loop.raised, data |-> <<>>, cache |-> cache, saved |-> FALSE,
          attempts |-> loop.attempts]
    ELSE IF ~NonEmpty(loop.data)
    THEN [raised |-> "ValueError", data |-> <<>>, cache |-> cache, saved |-> FALSE,
          attempts |-> loop.attempts]
    ELSE IF ColumnsMissing(FlattenColumns(loop.data[1]))
    THEN [raised |-> "ValueError", data |-> <<>>, cache |-> cache, saved |-> FALSE,
          attempts |-> loop.attempts]
    ELSE [raised |-> "none", data |-> <<Selected(loop.data[1])>>,
          cache |-> <<Selected(loop.data[1])>>, saved |-> TRUE,
          attempts |-> loop.attempts]

(* download_ohlcv(cfg, use_cache): what is returned or raised, the cache  *)
(* file after the call, whether to_csv ran (saved) and the download       *)
(* attempts made                                                          *)
download_ohlcv(cache, use_cache, outcomes) ==
    IF use_cache /\ cache # <<>>
    THEN [raised |-> "none", data |-> cache, cache |-> cache, saved |-> FALSE,
          attempts |-> <<>>]
    ELSE AfterLoop(cache, DownloadLoop(outcomes, <<>>, <<>>))

----------------------------------------------------------------------------
(* download_ohlcv driven by a caller: each call chooses use_cache, and    *)
(* the data service answers each attempt.                                 *)

MaxDlCalls == 2

Table(columns, index) ==
    [multi |-> FALSE, columns |-> columns, level1 |-> <<>>, index |-> index]

(* columns (Price, Ticker) of a download of one symbol *)
TickerTable(columns, index) ==
    [multi |-> TRUE, columns |-> columns, level1 |-> [i \in 1..Len(columns) |-> "SPY"],
     index |-> index]

(* the tables the data service returns *)
DlTables ==
    { Table(expected_cols, <<>>),
      Table(expected_cols, <<2, 1>>),
      Table(SubSeq(expected_cols, 2, 6), <<1, 2>>),
      TickerTable(expected_cols, <<1, 2>>),
      TickerTable(SubSeq(expected_cols, 2, 6), <<1, 2>>) }

DlOutcomes ==
    { [kind |-> "raise", data |-> <<>>], [kind |-> "return", data |-> <<>>] }
       \cup { [kind |-> "return", data |-> <<df>>] : df \in DlTables }

(* a cache file left by an earlier process *)
DlCaches == { <<>>, <<Table(required_cols, <<1, 2>>)>> }

InitDL ==
    /\ sg = SgIdle
    /\ bt = BtIdle
    /\ tb = TbIdle
    /\ ps = PsIdle
    /\ ms = MsIdle
    /\ ag = AgIdle
    /\ dl \in { [ phase |-> "caller", cache |-> c, calls |-> 0 ] : c \in DlCaches }

(* a call of download_ohlcv, from entry to its return or its exception *)
DownloadOhlcv(use_cache, outcomes) ==
    /\ dl.phase \in {"caller", "called"}
    /\ dl.calls < MaxDlCalls
    /\ dl' = [ phase |-> "called", calls |-> dl.calls + 1, use_cache |-> use_cache,
               before |-> dl.cache,
               cache |-> download_ohlcv(dl.cache, use_cache, outcomes).cache,
               call |-> download_ohlcv(dl.cache, use_cache, outcomes) ]
    /\ UNCHANGED <<sg, bt, tb, ps, ms, ag>>

(* the cache file is removed between two calls *)
RemoveCache ==
    /\ dl.phase = "called"
    /\ dl.cache # <<>>
    /\ dl.calls < MaxDlCalls
    /\ dl' = [ phase |-> "caller", cache |-> <<>>, calls |-> dl.calls ]
    /\ UNCHANGED <<sg, bt, tb, ps, ms, ag>>

NextDL ==
    \/ \E use_cache \in BOOLEAN : \E outcomes \in [1..max_retries -> DlOutcomes] :
           DownloadOhlcv(use_cache, outcomes)
    \/ RemoveCache

SpecDL == InitDL /\ [][NextDL]_vars

----------------------------------------------------------------------------
(* Properties of download_ohlcv (SpecDL) *)

DlCalled == dl.phase = "called"

CacheHit == dl.use_cache /\ dl.before # <<>>

(* the attempt raised or returned nothing *)
Failed(outcome) == outcome.kind = "raise" \/ ~NonEmpty(outcome.data)

(* C30: with use_cache and an existing cache file no download attempt is  *)
(* made; otherwise at most 3 attempts are made, none after the first that *)
(* returns non-empty data, and when every attempt raised or returned      *)
(* empty data the call raises ValueError and writes no cache file; the    *)
(* cache file is written only after a download that returned non-empty    *)
(* data with all six required columns.                                    *)
C30_DownloadAttempts ==
    DlCalled =>
        /\ CacheHit =>
               /\ dl.call.attempts = <<>>
               /\ dl.call.raised = "none"
               /\ dl.call.data = dl.before
               /\ ~dl.call.saved
               /\ dl.cache = dl.before
        /\ ~CacheHit =>
               /\ Len(dl.call.attempts) \in 1..3
               /\ \A i \in 1..(Len(dl.call.attempts) - 1) : Failed(dl.call.attempts[i])
               /\ Failed(dl.call.attempts[Len(dl.call.attempts)]) =>
                      /\ Len(dl.call.attempts) = 3
                      /\ dl.call.raised = "ValueError"
        /\ dl.call.raised # "none" => ~dl.call.saved
        /\ ~dl.call.saved => dl.cache = dl.before
        /\ dl.call.saved =>
               /\ ~CacheHit
               /\ dl.call.raised = "none"
               /\ ~Failed(dl.call.attempts[Len(dl.call.attempts)])
               /\ Range(required_cols) \subseteq
                      Range(FlattenColumns(dl.call.attempts[Len(dl.call.attempts)].data[1]))
               /\ dl.cache # <<>>
               /\ dl.cache[1].columns = required_cols
               /\ dl.call.data = dl.cache

(* three attempts, the first two fail and the third returns a table that  *)
(* is saved, over an existing cache file the call was told not to use     *)
C30_Witness ==
    /\ DlCalled
    /\ ~dl.use_cache
    /\ dl.before # <<>>
    /\ Len(dl.call.attempts) = 3
    /\ dl.call.attempts[1].kind = "raise"
    /\ dl.call.raised = "none"
    /\ dl.call.saved

(* every attempt failed: ValueError and no cache file *)
C30_WitnessAllFailed ==
    /\ DlCalled
    /\ dl.before = <<>>
    /\ Len(dl.call.attempts) = 3
    /\ \A i \in 1..3 : Failed(dl.call.attempts[i])
    /\ dl.call.raised = "ValueError"
    /\ ~dl.call.saved
    /\ dl.cache = <<>>

(* the cache file is read and nothing is downloaded *)
C30_WitnessCacheHit ==
    /\ DlCalled
    /\ CacheHit
    /\ dl.call.attempts = <<>>
    /\ dl.calls = 2

(* a download that returned data without a required column: ValueError    *)
(* and no cache file                                                      *)
C30_WitnessMissingColumn ==
    /\ DlCalled
    /\ dl.before = <<>>
    /\ Len(dl.call.attempts) = 1
    /\ ~Failed(dl.call.attempts[1])
    /\ dl.call.raised = "ValueError"
    /\ ~dl.call.saved
    /\ dl.cache = <<>>

============================================================================
